---- MODULE Spec2Model ----
(***************************************************************************)
(* BankSecure fraud-detection engine (src/app_test.py): the seven-layer    *)
(* risk analysis of AdvancedFraudDetectionEngine, the "Register User",     *)
(* "Authenticate User" and "Clear Archive" handlers, and the tables they   *)
(* read and write.  A handler is a script run of one browser session; its  *)
(* database statements are separate steps on the one shared connection.    *)
(*                                                                         *)
(* Conventions.  A table is a function from its primary key to its row;    *)
(* the keys present are the function's DOMAIN.  A query returning one row  *)
(* or None is a sequence of length 0 or 1.  Python floats that the code    *)
(* only compares with constants are kept in hundredths (0.8 is 80).  An    *)
(* alert string "SEV: text" is the record [sev, msg, n], n being the       *)
(* number formatted into the text (0 when there is none); the code's test  *)
(* `"CRITICAL" in alert` is the test sev = "CRITICAL".                     *)
(***************************************************************************)
EXTENDS Integers, Sequences, FiniteSets, TLC

VARIABLES
    users,                \* table users: user_id -> enrolled profile
    device_intelligence,  \* table device_intelligence: device_id -> row
    sim_intelligence,     \* table sim_intelligence: sim_id -> row
    fraud_patterns,       \* table fraud_patterns: a set of rows
    attempts,             \* table attempts: the rows in insertion order
    notifications,        \* table notifications: the rows in insertion order
    now,                  \* the host's local clock, in minutes since
                          \* midnight of day 0
    utc_offset,           \* the host's local time less UTC, in minutes
    last,                 \* the analysis on the page the last finished
                          \* script run left: <<>> or <<r>>
    ui,                   \* the messages on that page, in order
    threads,              \* the script runs under way: session -> the
                          \* program counter and the locals of its run
    users_db,             \* legacy backend, dict users_db: user_id -> profile
    sessions_db,          \* legacy backend, dict sessions_db: its values in
                          \* insertion order (the keys are fresh uuid4s)
    response              \* legacy backend: the last HTTP response

\* The legacy backend's state.
legacy == <<users_db, sessions_db, response>>

vars == <<users, device_intelligence, sim_intelligence, fraud_patterns,
          attempts, notifications, now, utc_offset, last, ui, threads,
          legacy>>

----------------------------------------------------------------------------
(* Input values.                                                           *)

Users == {"u1", "u2"}

Devices == {"trusted_device_001", "emulator_device_101",
            "bot_device_101", "attack_device_101"}

Sims == {"primary_sim_001", "swapped_sim_101"}

\* (lat, lon) pairs, named: bangalore (12.9716, 77.5946), mumbai (19.076,
\* 72.8777), dubai (25.2048, 55.2708), london (51.5074, -0.1278),
\* new_york (40.7128, -74.0060).
Locations == {"bangalore", "mumbai", "dubai", "london", "new_york"}

\* The <<keystroke_speed, mouse_speed>> pairs the form computes: <<0, 0>>
\* when the passphrase box is empty, else <<100, 150>> in the bot scenario,
\* 150..189 with 180..219 in normal operation, 80..119 with 90..139 in
\* every other scenario.
FormBiometrics ==
    {<<0, 0>>, <<100, 150>>}
    \cup ((150..189) \X (180..219))
    \cup ((80..119) \X (90..139))

\* `not passphrase`: the speeds of a form are 0 exactly when the box is
\* empty.
passphrase_empty(f) == f.keystroke_speed = 0 /\ f.mouse_speed = 0

\* Pairs the form submits.  Against the enrolled <<150, 180>> they differ by
\* 0, 80 (the bot signature), 330 (no passphrase), 50, 60 and 150.
Biometrics ==
    FormBiometrics \cap
    {<<150, 180>>, <<100, 150>>, <<0, 0>>, <<189, 191>>,
     <<189, 201>>, <<90, 90>>}

\* str.startswith on the device ids above.
startswith(s, prefix) ==
    <<s, prefix>> \in {<<"emulator_device_101", "emulator_">>,
                       <<"bot_device_101", "bot_">>}

abs(x) == IF x < 0 THEN -x ELSE x

min(a, b) == IF a < b THEN a ELSE b

\* The values of the random draws, in hundredths, one on each side of the
\* constant the code compares the draw with.
NetworkDraws == {5, 50}        \* np.random.random(), compared with 0.12
CloneDraws == {45, 85}         \* np.random.uniform(0.1, 0.9), with 0.8
DualSimDraws == {5, 50}        \* np.random.random(), with 0.15
LocationRiskDraws == {35, 75}  \* np.random.uniform(0.0, 1.0), with 0.7
PatternDraws == {25}           \* np.random.uniform(0.1, 0.4), below 0.6
RootedDraws == {2, 50}         \* np.random.random(), with 0.05
TrustDraws == {80}             \* np.random.uniform(70, 95), above 30

----------------------------------------------------------------------------
(* The engine.                                                             *)

\* Variant: the weights recalibrated to put impossible travel above the bot.
risk_weights_travel_above_bot ==
    [device_change_unknown |-> 80, device_change_suspicious |-> 60,
     device_change_known |-> 35, sim_swap_multiple |-> 90,
     sim_swap_first |-> 65, sim_clone_detected |-> 95,
     dual_sim_detected |-> 70, impossible_travel |-> 92,
     suspicious_velocity |-> 55, behavioral_bot |-> 90,
     behavioral_severe |-> 70, behavioral_moderate |-> 40,
     behavioral_minor |-> 20, timing_suspicious |-> 45,
     location_high_risk |-> 60, emulator_detected |-> 95,
     rooted_device |-> 65, vpn_proxy |-> 40, rapid_attempts |-> 50,
     failed_pattern |-> 55, phishing_indicators |-> 75]

risk_weights ==
    [device_change_unknown |-> 80, device_change_suspicious |-> 60,
     device_change_known |-> 35, sim_swap_multiple |-> 90,
     sim_swap_first |-> 65, sim_clone_detected |-> 95,
     dual_sim_detected |-> 70, impossible_travel |-> 85,
     suspicious_velocity |-> 55, behavioral_bot |-> 90,
     behavioral_severe |-> 70, behavioral_moderate |-> 40,
     behavioral_minor |-> 20, timing_suspicious |-> 45,
     location_high_risk |-> 60, emulator_detected |-> 95,
     rooted_device |-> 65, vpn_proxy |-> 40, rapid_attempts |-> 50,
     failed_pattern |-> 55, phishing_indicators |-> 75]

Alert(sev, msg, n) == [sev |-> sev, msg |-> msg, n |-> n]

NoRisk == [risk |-> 0, alerts |-> <<>>]

\* risk += w; alerts.append(a)
Add(r, w, a) == [risk |-> r.risk + w, alerts |-> Append(r.alerts, a)]

\* The haversine distance of two of the Locations, rounded to whole km.
calculate_distance(l1, l2) ==
    LET pair == {l1, l2} IN
    CASE Cardinality(pair) = 1 -> 0
      [] pair = {"bangalore", "mumbai"} -> 845
      [] pair = {"bangalore", "dubai"} -> 2705
      [] pair = {"bangalore", "london"} -> 8035
      [] pair = {"bangalore", "new_york"} -> 13368
      [] pair = {"mumbai", "dubai"} -> 1935
      [] pair = {"mumbai", "london"} -> 7192
      [] pair = {"mumbai", "new_york"} -> 12538
      [] pair = {"dubai", "london"} -> 5473
      [] pair = {"dubai", "new_york"} -> 11008
      [] pair = {"london", "new_york"} -> 5570

\* Variant: the row on file is looked at whether or not the device changed.
analyze_device_intelligence_unconditional(user, login, device_intel) ==
    IF device_intel # <<>>
    THEN LET di == device_intel[1] IN
         IF di.is_emulator
         THEN Add(NoRisk, risk_weights.emulator_detected,
                  Alert("CRITICAL", "Mobile emulator detected", 0))
         ELSE IF di.is_rooted
         THEN Add(NoRisk, risk_weights.rooted_device,
                  Alert("WARNING", "Rooted/jailbroken device detected", 0))
         ELSE IF di.suspicious_activity_count > 3
         THEN Add(NoRisk, risk_weights.device_change_suspicious,
                  Alert("WARNING", "Device with suspicious history", 0))
         ELSE IF di.trust_score < 30
         THEN Add(NoRisk, risk_weights.device_change_suspicious,
                  Alert("WARNING", "Untrusted device", 0))
         ELSE Add(NoRisk, risk_weights.device_change_known,
                  Alert("INFO", "Known device change", 0))
    ELSE Add(NoRisk, risk_weights.device_change_unknown,
             Alert("CRITICAL", "Unknown device detected", 0))

\* Variant: the rooted flag is tested before the emulator flag.
analyze_device_intelligence_rooted_first(user, login, device_intel) ==
    IF login.device_id # user.device_id
    THEN IF device_intel # <<>>
         THEN LET di == device_intel[1] IN
              IF di.is_rooted
              THEN Add(NoRisk, risk_weights.rooted_device,
                       Alert("WARNING", "Rooted/jailbroken device detected", 0))
              ELSE IF di.is_emulator
              THEN Add(NoRisk, risk_weights.emulator_detected,
                       Alert("CRITICAL", "Mobile emulator detected", 0))
              ELSE IF di.suspicious_activity_count > 3
              THEN Add(NoRisk, risk_weights.device_change_suspicious,
                       Alert("WARNING", "Device with suspicious history", 0))
              ELSE IF di.trust_score < 30
              THEN Add(NoRisk, risk_weights.device_change_suspicious,
                       Alert("WARNING", "Untrusted device", 0))
              ELSE Add(NoRisk, risk_weights.device_change_known,
                       Alert("INFO", "Known device change", 0))
         ELSE Add(NoRisk, risk_weights.device_change_unknown,
                  Alert("CRITICAL", "Unknown device detected", 0))
    ELSE NoRisk

\* Variant: an unknown device is weighed like a known device change.
analyze_device_intelligence_unknown_as_known(user, login, device_intel) ==
    IF login.device_id # user.device_id
    THEN IF device_intel # <<>>
         THEN LET di == device_intel[1] IN
              IF di.is_emulator
              THEN Add(NoRisk, risk_weights.emulator_detected,
                       Alert("CRITICAL", "Mobile emulator detected", 0))
              ELSE IF di.is_rooted
              THEN Add(NoRisk, risk_weights.rooted_device,
                       Alert("WARNING", "Rooted/jailbroken device detected", 0))
              ELSE IF di.suspicious_activity_count > 3
              THEN Add(NoRisk, risk_weights.device_change_suspicious,
                       Alert("WARNING", "Device with suspicious history", 0))
              ELSE IF di.trust_score < 30
              THEN Add(NoRisk, risk_weights.device_change_suspicious,
                       Alert("WARNING", "Untrusted device", 0))
              ELSE Add(NoRisk, risk_weights.device_change_known,
                       Alert("INFO", "Known device change", 0))
         ELSE Add(NoRisk, risk_weights.device_change_known,
                  Alert("CRITICAL", "Unknown device detected", 0))
    ELSE NoRisk

analyze_device_intelligence(user, login, device_intel) ==
    IF login.device_id # user.device_id
    THEN IF device_intel # <<>>
         THEN LET di == device_intel[1] IN
              IF di.is_emulator
              THEN Add(NoRisk, risk_weights.emulator_detected,
                       Alert("CRITICAL", "Mobile emulator detected", 0))
              ELSE IF di.is_rooted
              THEN Add(NoRisk, risk_weights.rooted_device,
                       Alert("WARNING", "Rooted/jailbroken device detected", 0))
              ELSE IF di.suspicious_activity_count > 3
              THEN Add(NoRisk, risk_weights.device_change_suspicious,
                       Alert("WARNING", "Device with suspicious history", 0))
              ELSE IF di.trust_score < 30
              THEN Add(NoRisk, risk_weights.device_change_suspicious,
                       Alert("WARNING", "Untrusted device", 0))
              ELSE Add(NoRisk, risk_weights.device_change_known,
                       Alert("INFO", "Known device change", 0))
         ELSE Add(NoRisk, risk_weights.device_change_unknown,
                  Alert("CRITICAL", "Unknown device detected", 0))
    ELSE NoRisk

detect_sim_cloning(user, login, draw) ==
    IF login.sim_id # user.sim_id THEN draw ELSE 0

detect_dual_sim(sim_id, draw) == draw < 15

\* The swap-frequency branch of _analyze_sim_intelligence.
sim_swap_rule(r, sim_intel) ==
    IF sim_intel # <<>>
    THEN LET swap_freq == sim_intel[1].swap_frequency IN
         IF swap_freq > 2
         THEN Add(r, risk_weights.sim_swap_multiple,
                  Alert("CRITICAL", "Multiple SIM swaps", swap_freq))
         ELSE IF swap_freq > 0
         THEN Add(r, risk_weights.sim_swap_first,
                  Alert("WARNING", "Previous SIM swap detected", 0))
         ELSE r
    ELSE Add(r, risk_weights.sim_swap_first,
             Alert("WARNING", "SIM card changed", 0))

analyze_sim_intelligence(user, login, sim_intel, rnd) ==
    IF login.sim_id # user.sim_id
    THEN LET clone_score == detect_sim_cloning(user, login, rnd.clone)
             r1 == IF clone_score > 80
                   THEN Add(NoRisk, risk_weights.sim_clone_detected,
                            Alert("CRITICAL", "SIM cloning detected", 0))
                   ELSE NoRisk
             r2 == IF detect_dual_sim(login.sim_id, rnd.dual)
                   THEN Add(r1, risk_weights.dual_sim_detected,
                            Alert("WARNING", "Dual SIM usage detected", 0))
                   ELSE r1
         IN  sim_swap_rule(r2, sim_intel)
    ELSE NoRisk

\* Variant: two bands only, CRITICAL beyond 2000 km and WARNING beyond 500.
distance_rule_two_bands(distance) ==
    IF distance > 2000
    THEN Add(NoRisk, risk_weights.impossible_travel,
             Alert("CRITICAL", "Impossible travel", distance))
    ELSE IF distance > 500
    THEN Add(NoRisk, risk_weights.suspicious_velocity,
             Alert("WARNING", "High-speed travel", distance))
    ELSE NoRisk

\* The distance branch of _analyze_geospatial_intelligence.
distance_rule(distance) ==
    IF distance > 10000
    THEN Add(NoRisk, risk_weights.impossible_travel,
             Alert("CRITICAL", "Impossible travel", distance))
    ELSE IF distance > 5000
    THEN Add(NoRisk, risk_weights.impossible_travel,
             Alert("CRITICAL", "Impossible travel", distance))
    ELSE IF distance > 2000
    THEN Add(NoRisk, risk_weights.suspicious_velocity,
             Alert("WARNING", "High-speed travel", distance))
    ELSE IF distance > 500
    THEN Add(NoRisk, 30, Alert("INFO", "New location", distance))
    ELSE NoRisk

assess_location_risk(loc, draw) == draw

analyze_geospatial_intelligence(user, login, rnd) ==
    LET distance == calculate_distance(user.loc, login.loc)
        r1 == distance_rule(distance)
        location_risk == assess_location_risk(login.loc, rnd.location)
    IN  IF location_risk > 70
        THEN Add(r1, risk_weights.location_high_risk,
                 Alert("WARNING", "High-risk geographic area", 0))
        ELSE r1

detect_bot_behavior(login) ==
    login.keystroke_speed = 100 /\ login.mouse_speed = 150

\* Variant: the moderate band starts at 100.
analyze_behavioral_biometrics_from_100(user, login) ==
    IF detect_bot_behavior(login)
    THEN Add(NoRisk, risk_weights.behavioral_bot,
             Alert("CRITICAL", "Automated/bot behavior detected", 0))
    ELSE LET keystroke_diff == abs(user.keystroke_speed - login.keystroke_speed)
             mouse_diff == abs(user.mouse_speed - login.mouse_speed)
             total_diff == keystroke_diff + mouse_diff
         IN  IF total_diff > 150
             THEN Add(NoRisk, risk_weights.behavioral_severe,
                      Alert("CRITICAL", "Severe behavioral anomaly", 0))
             ELSE IF total_diff >= 100
             THEN Add(NoRisk, risk_weights.behavioral_moderate,
                      Alert("WARNING", "Moderate behavioral change", 0))
             ELSE IF total_diff > 50
             THEN Add(NoRisk, risk_weights.behavioral_minor,
                      Alert("INFO", "Minor behavioral variation", 0))
             ELSE NoRisk

\* Variant: the bot branch does not return; the deviation bands follow it.
analyze_behavioral_biometrics_no_return(user, login) ==
    LET r0 == IF detect_bot_behavior(login)
              THEN Add(NoRisk, risk_weights.behavioral_bot,
                       Alert("CRITICAL", "Automated/bot behavior detected", 0))
              ELSE NoRisk
        keystroke_diff == abs(user.keystroke_speed - login.keystroke_speed)
        mouse_diff == abs(user.mouse_speed - login.mouse_speed)
        total_diff == keystroke_diff + mouse_diff
    IN  IF total_diff > 150
        THEN Add(r0, risk_weights.behavioral_severe,
                 Alert("CRITICAL", "Severe behavioral anomaly", 0))
        ELSE IF total_diff > 100
        THEN Add(r0, risk_weights.behavioral_moderate,
                 Alert("WARNING", "Moderate behavioral change", 0))
        ELSE IF total_diff > 50
        THEN Add(r0, risk_weights.behavioral_minor,
                 Alert("INFO", "Minor behavioral variation", 0))
        ELSE r0

analyze_behavioral_biometrics(user, login) ==
    IF detect_bot_behavior(login)
    THEN Add(NoRisk, risk_weights.behavioral_bot,
             Alert("CRITICAL", "Automated/bot behavior detected", 0))
    ELSE LET keystroke_diff == abs(user.keystroke_speed - login.keystroke_speed)
             mouse_diff == abs(user.mouse_speed - login.mouse_speed)
             total_diff == keystroke_diff + mouse_diff
         IN  IF total_diff > 150
             THEN Add(NoRisk, risk_weights.behavioral_severe,
                      Alert("CRITICAL", "Severe behavioral anomaly", 0))
             ELSE IF total_diff > 100
             THEN Add(NoRisk, risk_weights.behavioral_moderate,
                      Alert("WARNING", "Moderate behavioral change", 0))
             ELSE IF total_diff > 50
             THEN Add(NoRisk, risk_weights.behavioral_minor,
                      Alert("INFO", "Minor behavioral variation", 0))
             ELSE NoRisk

\* Variant: the unusual-hour test reads hour < 23 for hour > 23.
analyze_temporal_patterns_before_23(hour, recent_attempts) ==
    LET r1 == IF hour < 5 \/ hour < 23
              THEN Add(NoRisk, risk_weights.timing_suspicious,
                       Alert("WARNING", "Unusual login time", hour))
              ELSE NoRisk
    IN  IF recent_attempts > 5
        THEN Add(r1, risk_weights.rapid_attempts,
                 Alert("WARNING", "Multiple rapid attempts", 0))
        ELSE r1

\* recent_attempts is len(self._get_recent_attempts(user_id, minutes=10)).
analyze_temporal_patterns(hour, recent_attempts) ==
    LET r1 == IF hour < 5 \/ hour > 23
              THEN Add(NoRisk, risk_weights.timing_suspicious,
                       Alert("WARNING", "Unusual login time", hour))
              ELSE NoRisk
    IN  IF recent_attempts > 5
        THEN Add(r1, risk_weights.rapid_attempts,
                 Alert("WARNING", "Multiple rapid attempts", 0))
        ELSE r1

analyze_network_intelligence(rnd) ==
    IF rnd.network < 12
    THEN Add(NoRisk, risk_weights.vpn_proxy,
             Alert("WARNING", "VPN/Proxy usage detected", 0))
    ELSE NoRisk

\* matched is the SELECT MAX(confidence_score) row: <<>> when no pattern has
\* the login's device_id or sim_id, else <<the maximum>>.  With a maximum,
\* float(result) is applied to the row tuple, raises TypeError, and the
\* except branch returns 0.0; without one the function returns the draw.
check_fraud_patterns(matched, draw) ==
    IF matched # <<>> THEN 0 ELSE draw

\* The thresholds of _analyze_fraud_patterns.
fraud_pattern_rule(fraud_confidence) ==
    IF fraud_confidence > 80
    THEN Add(NoRisk, risk_weights.phishing_indicators,
             Alert("CRITICAL", "Matches known fraud pattern", 0))
    ELSE IF fraud_confidence > 60
    THEN Add(NoRisk, 50, Alert("WARNING", "Similar to fraud pattern", 0))
    ELSE NoRisk

analyze_fraud_patterns(matched, rnd) ==
    fraud_pattern_rule(check_fraud_patterns(matched, rnd.pattern))

\* sum(1 for alert in alerts if sev in alert)
CountAlerts(alerts, sev) ==
    Cardinality({i \in DOMAIN alerts : alerts[i].sev = sev})

\* Variant: one WARNING is enough for the third value.
calculate_ml_confidence_one_warning(alerts) ==
    LET critical_count == CountAlerts(alerts, "CRITICAL")
        warning_count == CountAlerts(alerts, "WARNING")
    IN  IF critical_count >= 2 THEN 95
        ELSE IF critical_count >= 1 THEN 88
        ELSE IF warning_count >= 1 THEN 82
        ELSE 92

calculate_ml_confidence(alerts) ==
    LET critical_count == CountAlerts(alerts, "CRITICAL")
        warning_count == CountAlerts(alerts, "WARNING")
    IN  IF critical_count >= 2 THEN 95
        ELSE IF critical_count >= 1 THEN 88
        ELSE IF warning_count >= 2 THEN 82
        ELSE 92

\* Variant: the total is not capped.
cap_total_uncapped(total_risk) == total_risk

\* return min(total_risk, 100)
cap_total(total_risk) == min(total_risk, 100)

\* c is what one pass reads: the profile, the login, the rows the lookups
\* return, the clock hour, and the random draws (c.rnd).
comprehensive_risk_analysis(c) ==
    LET device == analyze_device_intelligence(c.user, c.login, c.device_intel)
        sim == analyze_sim_intelligence(c.user, c.login, c.sim_intel, c.rnd)
        geo == analyze_geospatial_intelligence(c.user, c.login, c.rnd)
        behavior == analyze_behavioral_biometrics(c.user, c.login)
        temporal == analyze_temporal_patterns(c.hour, c.recent_attempts)
        network == analyze_network_intelligence(c.rnd)
        pattern == analyze_fraud_patterns(c.matched, c.rnd)
        total_risk == device.risk + sim.risk + geo.risk + behavior.risk
                      + temporal.risk + network.risk + pattern.risk
        alerts == device.alerts \o sim.alerts \o geo.alerts \o behavior.alerts
                  \o temporal.alerts \o network.alerts \o pattern.alerts
    IN  [risk_score |-> cap_total(total_risk),
         alerts |-> alerts,
         risk_breakdown |->
             [device_analysis |-> device.risk, sim_analysis |-> sim.risk,
              geospatial_analysis |-> geo.risk,
              behavioral_analysis |-> behavior.risk,
              temporal_analysis |-> temporal.risk,
              network_analysis |-> network.risk,
              pattern_analysis |-> pattern.risk],
         ml_confidence |-> calculate_ml_confidence(alerts)]

\* Variant: BLOCKED needs a score above 80.
decide_above_80(risk_score, critical_alerts) ==
    IF risk_score > 80 \/ critical_alerts >= 2 THEN "BLOCKED"
    ELSE IF risk_score >= 50 \/ critical_alerts >= 1 THEN "CHALLENGE"
    ELSE "APPROVED"

\* Variant: the CHALLENGE band is tested before the BLOCKED band.
decide_challenge_first(risk_score, critical_alerts) ==
    IF risk_score >= 50 \/ critical_alerts >= 1 THEN "CHALLENGE"
    ELSE IF risk_score >= 80 \/ critical_alerts >= 2 THEN "BLOCKED"
    ELSE "APPROVED"

\* The decision logic of the Authenticate User handler.
decide(risk_score, critical_alerts) ==
    IF risk_score >= 80 \/ critical_alerts >= 2 THEN "BLOCKED"
    ELSE IF risk_score >= 50 \/ critical_alerts >= 1 THEN "CHALLENGE"
    ELSE "APPROVED"

----------------------------------------------------------------------------
(* The tables.                                                             *)

EmptyTable == [k \in {} |-> 0]

\* cursor.fetchone() of a SELECT by primary key.
row_of(table, k) == IF k \in DOMAIN table THEN <<table[k]>> ELSE <<>>

\* INSERT OR REPLACE of the row keyed k.
Upsert(table, k, row) ==
    [x \in DOMAIN table \cup {k} |-> IF x = k THEN row ELSE table[x]]

get_user(user_id) ==
    IF user_id \in DOMAIN users THEN <<users[user_id]>> ELSE <<>>

get_device_intelligence(device_id) ==
    IF device_id \in DOMAIN device_intelligence
    THEN <<device_intelligence[device_id]>>
    ELSE <<>>

\* SELECT si.* FROM sim_intelligence si JOIN users u ON si.sim_id = u.sim_id
\* WHERE u.user_id = ?: the row of the user's ENROLLED sim.
get_sim_intelligence(user_id) ==
    IF user_id \in DOMAIN users
       /\ users[user_id].sim_id \in DOMAIN sim_intelligence
    THEN <<sim_intelligence[users[user_id].sim_id]>>
    ELSE <<>>

\* SQLite's datetime('now'): the UTC time, while datetime.now() is the
\* host's local time.
sqlite_now == now - utc_offset

\* The rows of attempts the query of _get_recent_attempts selects.  The
\* timestamps on file are local times (attempt_row); the query compares
\* them with datetime('now', '-N minutes').
get_recent_attempts(user_id, minutes) ==
    {i \in DOMAIN attempts :
        /\ attempts[i].user_id = user_id
        /\ attempts[i].status \in {"BLOCKED", "CHALLENGE"}
        /\ attempts[i].timestamp > sqlite_now - minutes}

Max(S) == CHOOSE x \in S : \A y \in S : y <= x

\* SELECT MAX(confidence_score) FROM fraud_patterns WHERE device_id=? OR
\* sim_id=?
select_max_confidence(login) ==
    LET rows == {p \in fraud_patterns :
                    p.device_id = login.device_id \/ p.sim_id = login.sim_id}
    IN  IF rows = {} THEN <<>>
        ELSE <<Max({p.confidence_score : p \in rows})>>

\* Bounds of the model.
MaxAttempts == 2
MaxTicks == 1
TickMinutes == 6
MaxSwapSeed == 3
MaxSeedAttempts == 6

\* datetime('now', '-1 day'), in minutes.
DayMinutes == 1440

\* datetime.now().hour
hour_of(t) == (t \div 60) % 24

\* The row _update_device_intelligence writes: the columns it does not name
\* (user_count, suspicious_activity_count) take the table's defaults.
device_row(device_id, rooted_draw, trust_draw) ==
    LET is_emulator == startswith(device_id, "emulator_")
        is_rooted == startswith(device_id, "bot_") \/ rooted_draw < 5
        trust_score == IF is_emulator \/ is_rooted THEN 25 ELSE trust_draw
    IN  [first_seen |-> now, last_seen |-> now, trust_score |-> trust_score,
         is_emulator |-> is_emulator, is_rooted |-> is_rooted,
         user_count |-> 1, suspicious_activity_count |-> 0]

update_device_intelligence(device_id, rnd) ==
    Upsert(device_intelligence, device_id,
           device_row(device_id, rnd.rooted, rnd.trust))

\* The row _update_sim_intelligence writes.  clone_detection_score and
\* dual_sim_detected are written from fresh random draws and read by
\* nothing; they are left out of the row.  suspicious_activity_count is not
\* named by the INSERT and takes the table's default.
\* Both times are the datetime.now() the function read before its SELECT.
sim_row_with(stamp, swap_freq) ==
    [first_registered |-> stamp, last_used |-> stamp,
     swap_frequency |-> swap_freq, suspicious_activity_count |-> 0]

\* SELECT swap_frequency FROM sim_intelligence WHERE sim_id=?, and
\* swap_freq = (result[0] + 1) if result else 1
select_swap_frequency(sim_id) ==
    LET result == row_of(sim_intelligence, sim_id)
    IN  IF result # <<>> THEN result[1].swap_frequency + 1 ELSE 1

\* Variant: the statement also refreshes last_used of every other row.
insert_or_replace_sim_refresh_all(sim_id, stamp, swap_freq) ==
    [x \in DOMAIN sim_intelligence \cup {sim_id} |->
        IF x = sim_id
        THEN sim_row_with(stamp, swap_freq)
        ELSE [sim_intelligence[x] EXCEPT !.last_used = now + 1]]

\* INSERT OR REPLACE INTO sim_intelligence (sim_id, first_registered,
\* last_used, swap_frequency, ...) VALUES (...)
insert_or_replace_sim(sim_id, stamp, swap_freq) ==
    Upsert(sim_intelligence, sim_id, sim_row_with(stamp, swap_freq))

\* "CRITICAL" if risk_score >= 70 else "HIGH" if risk_score >= 50 else "MEDIUM"
priority(risk_score) ==
    IF risk_score >= 70 THEN "CRITICAL"
    ELSE IF risk_score >= 50 THEN "HIGH" ELSE "MEDIUM"

send_fraud_alert(user_id, risk_score) ==
    Append(notifications,
           [user_id |-> user_id, risk_score |-> risk_score,
            priority_level |-> priority(risk_score), sent_time |-> now])

\* Variant: the query is not wrapped; its exception leaves the function.
try_unguarded(failed, value, default) ==
    [raised |-> failed, value |-> IF failed THEN default ELSE value]

\* try: return value / except: return default
try_except(failed, value, default) ==
    [raised |-> FALSE, value |-> IF failed THEN default ELSE value]

\* Variant: the row keeps the fraud probability, risk_score / 100, as its
\* score.
attempt_row_probability(user_id, risk_score, status) ==
    [user_id |-> user_id, timestamp |-> now,
     risk_score |-> risk_score \div 100,
     status |-> status, notification_sent |-> (status = "BLOCKED")]

\* The attempts row written by add_attempt: the columns the program reads
\* back or decides.
attempt_row(user_id, risk_score, status) ==
    [user_id |-> user_id, timestamp |-> now, risk_score |-> risk_score,
     status |-> status, notification_sent |-> (status = "BLOCKED")]

----------------------------------------------------------------------------
(* The handlers.  Streamlit runs the script of every browser session in a  *)
(* thread of its own, and all of them use the one connection of            *)
(* get_database_connection (cache_resource, check_same_thread=False).  A   *)
(* press of a button is a script run: each statement it executes on the    *)
(* connection is a step, and statements of other runs come in between.     *)
(* What a run has read so far it keeps in its locals.                      *)

Sessions == {"s1", "s2"}

\* A submitted form: the widgets' values.
Form(user_id, device_id, sim_id, loc, bio) ==
    [user_id |-> user_id, device_id |-> device_id, sim_id |-> sim_id,
     loc |-> loc, keystroke_speed |-> bio[1], mouse_speed |-> bio[2]]

\* The random draws of a run: a draw the run has not made is 0.
NoDraws ==
    [network |-> 0, clone |-> 0, dual |-> 0, location |-> 0, pattern |-> 0,
     rooted |-> 0, trust |-> 0]

\* The locals of a run that is at statement pc.
Run(pc, f, user) ==
    [pc |-> pc, f |-> f, user |-> user, device_intel |-> <<>>,
     sim_intel |-> <<>>, stamp |-> 0, swap_freq |-> 0, hour |-> 0,
     recent_attempts |-> 0,
     matched |-> <<>>, rnd |-> NoDraws, result |-> <<>>, status |-> "",
     fail |-> {}]

Running(s, pc) == s \in DOMAIN threads /\ threads[s].pc = pc

\* The run of s has ended.
Ended(s) == [x \in DOMAIN threads \ {s} |-> threads[x]]

\* The statement after the device layer: the SIM layer queries the store
\* only when the SIM differs from the enrolled one.
after_device(f, user) ==
    IF f.sim_id # user.sim_id THEN "sim_select" ELSE "attempts_select"

\* The first statement of the analysis: the device layer queries the store
\* only when the device differs from the enrolled one.
first_statement(f, user) ==
    IF f.device_id # user.device_id THEN "device_select"
    ELSE after_device(f, user)

\* What the pass of a run has read: the profile, the login, the rows the
\* lookups returned, the clock hour, and the random draws.
Context(t) ==
    [user |-> t.user, login |-> t.f, device_intel |-> t.device_intel,
     sim_intel |-> t.sim_intel, recent_attempts |-> t.recent_attempts,
     hour |-> t.hour, matched |-> t.matched, rnd |-> t.rnd]

\* The draws of _update_device_intelligence: is_rooted draws unless the id
\* starts with bot_, trust_score draws only when the device is neither an
\* emulator nor rooted.
DeviceDraws(device_id, rnd) ==
    LET bot_id == startswith(device_id, "bot_")
        emulator_id == startswith(device_id, "emulator_")
    IN  {d \in {[rnd EXCEPT !.rooted = r, !.trust = t] :
                    r \in IF bot_id THEN {0} ELSE RootedDraws,
                    t \in TrustDraws \cup {0}} :
            (d.trust # 0) <=> (~bot_id /\ ~emulator_id /\ d.rooted >= 5)}

\* "Register User", up to the sleep: the warning, the rejection of a user
\* on file, or the run goes on to add_user.
PressRegister(s, f) ==
    /\ s \notin DOMAIN threads
    /\ IF f.user_id = "" \/ passphrase_empty(f)
       THEN /\ ui' = <<"Please provide User ID and passphrase">>
            /\ last' = <<>>
            /\ UNCHANGED threads
       ELSE IF get_user(f.user_id) # <<>>
       THEN /\ ui' = <<"User already exists">>
            /\ last' = <<>>
            /\ UNCHANGED threads
       ELSE /\ threads' = Upsert(threads, s, Run("add_user", f, f))
            /\ UNCHANGED <<ui, last>>
    /\ UNCHANGED <<users, device_intelligence, sim_intelligence,
                   fraud_patterns, attempts, notifications, now, utc_offset,
                   legacy>>

\* Variant: the INSERT replaces the profile on file.
AddUser_overwrite(s) ==
    /\ Running(s, "add_user")
    /\ users' = Upsert(users, threads[s].f.user_id, threads[s].f)
    /\ ui' = <<"Registration Successful">>
    /\ last' = <<>>
    /\ threads' = Ended(s)
    /\ UNCHANGED <<device_intelligence, sim_intelligence, fraud_patterns,
                   attempts, notifications, now, utc_offset, legacy>>

\* add_user: the INSERT INTO users, which fails on a user_id that is on
\* file by now (user_id is the primary key).
AddUser(s) ==
    /\ Running(s, "add_user")
    /\ IF threads[s].f.user_id \in DOMAIN users
       THEN /\ ui' = <<"Registration failed">>
            /\ UNCHANGED users
       ELSE /\ users' = Upsert(users, threads[s].f.user_id, threads[s].f)
            /\ ui' = <<"Registration Successful">>
    /\ last' = <<>>
    /\ threads' = Ended(s)
    /\ UNCHANGED <<device_intelligence, sim_intelligence, fraud_patterns,
                   attempts, notifications, now, utc_offset, legacy>>

\* "Authenticate User", up to the sleep: get_user, and the error when it
\* finds nothing.
PressAuthenticate(s, f) ==
    /\ s \notin DOMAIN threads
    /\ LET user == get_user(f.user_id) IN
       IF user = <<>>
       THEN /\ ui' = <<"User not found">>
            /\ last' = <<>>
            /\ UNCHANGED threads
       ELSE /\ threads' =
                   Upsert(threads, s,
                          Run(first_statement(f, user[1]), f, user[1]))
            /\ UNCHANGED <<ui, last>>
    /\ UNCHANGED <<users, device_intelligence, sim_intelligence,
                   fraud_patterns, attempts, notifications, now, utc_offset,
                   legacy>>

\* _get_device_intelligence: SELECT * FROM device_intelligence WHERE
\* device_id=?
SelectDevice(s) ==
    /\ Running(s, "device_select")
    /\ threads' =
           [threads EXCEPT
               ![s].device_intel =
                   get_device_intelligence(threads[s].f.device_id),
               ![s].pc = "device_update"]
    /\ UNCHANGED <<users, device_intelligence, sim_intelligence,
                   fraud_patterns, attempts, notifications, now, utc_offset,
                   last, ui, legacy>>

\* _update_device_intelligence: INSERT OR REPLACE INTO device_intelligence
UpdateDevice(s) ==
    /\ Running(s, "device_update")
    /\ LET t == threads[s] IN
       \E rnd \in DeviceDraws(t.f.device_id, t.rnd) :
           /\ device_intelligence' =
                  update_device_intelligence(t.f.device_id, rnd)
           /\ threads' = [threads EXCEPT ![s].rnd = rnd,
                                         ![s].pc = after_device(t.f, t.user)]
    /\ UNCHANGED <<users, sim_intelligence, fraud_patterns, attempts,
                   notifications, now, utc_offset, last, ui, legacy>>

\* Variant: the SIM lookup is keyed by the attempt's SIM.
SelectSim_by_login(s) ==
    /\ Running(s, "sim_select")
    /\ \E clone \in CloneDraws, dual \in DualSimDraws :
           threads' =
               [threads EXCEPT
                   ![s].sim_intel =
                       row_of(sim_intelligence, threads[s].f.sim_id),
                   ![s].rnd.clone = clone,
                   ![s].rnd.dual = dual,
                   ![s].pc = "swap_select"]
    /\ UNCHANGED <<users, device_intelligence, sim_intelligence,
                   fraud_patterns, attempts, notifications, now, utc_offset,
                   last, ui, legacy>>

\* _get_sim_intelligence: the SELECT joining sim_intelligence with users;
\* the clone and dual-SIM draws follow it.
SelectSim(s) ==
    /\ Running(s, "sim_select")
    /\ \E clone \in CloneDraws, dual \in DualSimDraws :
           threads' =
               [threads EXCEPT
                   ![s].sim_intel =
                       get_sim_intelligence(threads[s].user.user_id),
                   ![s].rnd.clone = clone,
                   ![s].rnd.dual = dual,
                   ![s].pc = "swap_select"]
    /\ UNCHANGED <<users, device_intelligence, sim_intelligence,
                   fraud_patterns, attempts, notifications, now, utc_offset,
                   last, ui, legacy>>

\* _update_sim_intelligence, up to its first statement: now =
\* datetime.now(), and SELECT swap_frequency
SelectSwapFrequency(s) ==
    /\ Running(s, "swap_select")
    /\ threads' =
           [threads EXCEPT
               ![s].stamp = now,
               ![s].swap_freq = select_swap_frequency(threads[s].f.sim_id),
               ![s].pc = "sim_insert"]
    /\ UNCHANGED <<users, device_intelligence, sim_intelligence,
                   fraud_patterns, attempts, notifications, now, utc_offset,
                   last, ui, legacy>>

\* _update_sim_intelligence, second statement: INSERT OR REPLACE; commit
InsertOrReplaceSim(s) ==
    /\ Running(s, "sim_insert")
    /\ sim_intelligence' =
           insert_or_replace_sim(threads[s].f.sim_id, threads[s].stamp,
                                 threads[s].swap_freq)
    /\ threads' = [threads EXCEPT ![s].pc = "attempts_select"]
    /\ UNCHANGED <<users, device_intelligence, fraud_patterns, attempts,
                   notifications, now, utc_offset, last, ui, legacy>>

\* _get_recent_attempts, with the clock the temporal layer reads before it
\* and the location-risk draw the geospatial layer made.
SelectRecentAttempts(s) ==
    /\ Running(s, "attempts_select")
    /\ \E location \in LocationRiskDraws :
           threads' =
               [threads EXCEPT
                   ![s].hour = hour_of(now),
                   ![s].recent_attempts =
                       Cardinality(
                           get_recent_attempts(threads[s].user.user_id, 10)),
                   ![s].rnd.location = location,
                   ![s].pc = "pattern_select"]
    /\ UNCHANGED <<users, device_intelligence, sim_intelligence,
                   fraud_patterns, attempts, notifications, now, utc_offset,
                   last, ui, legacy>>

\* _check_fraud_patterns: SELECT MAX(confidence_score), after the network
\* draw; then the pass returns, and the handler decides and displays.
SelectPatterns(s) ==
    /\ Running(s, "pattern_select")
    /\ LET matched == select_max_confidence(threads[s].f) IN
       \E network \in NetworkDraws,
          pattern \in IF matched = <<>> THEN PatternDraws ELSE {0} :
           LET t == [threads[s] EXCEPT !.matched = matched,
                                       !.rnd.network = network,
                                       !.rnd.pattern = pattern]
               result == comprehensive_risk_analysis(Context(t))
               status == decide(result.risk_score,
                                CountAlerts(result.alerts, "CRITICAL"))
           IN  threads' =
                   [threads EXCEPT
                       ![s] = [t EXCEPT
                                  !.result = <<result>>,
                                  !.status = status,
                                  !.pc = IF status = "BLOCKED"
                                         THEN "notify" ELSE "log"]]
    /\ UNCHANGED <<users, device_intelligence, sim_intelligence,
                   fraud_patterns, attempts, notifications, now, utc_offset,
                   last, ui, legacy>>

\* The writes of the page that may fail: the INSERT of send_fraud_alert
\* (except: pass) and the INSERT of add_attempt (except: st.error).
PageWrites == {"notification_insert", "attempt_insert"}

\* The set a run's failed writes are kept in.
Failed(failed, write) == IF failed THEN {write} ELSE {}

\* send_fraud_alert of a BLOCKED attempt: the INSERT INTO notifications,
\* which raises when failed.
SendFraudAlert(s, failed) ==
    /\ Running(s, "notify")
    /\ LET t == threads[s] IN
       /\ notifications' =
              try_except(failed,
                         send_fraud_alert(t.f.user_id, t.result[1].risk_score),
                         notifications).value
       /\ threads' =
              [threads EXCEPT
                  ![s].fail = t.fail \cup Failed(failed, "notification_insert"),
                  ![s].pc = "log"]
    /\ UNCHANGED <<users, device_intelligence, sim_intelligence,
                   fraud_patterns, attempts, now, utc_offset, last, ui,
                   legacy>>

\* What the page of an authentication shows when its run ends.
Shown(status, failed) ==
    <<status>>
    \o (IF status = "BLOCKED" THEN <<"Security notification sent">> ELSE <<>>)
    \o (IF failed THEN <<"Failed to log attempt">> ELSE <<>>)

\* add_attempt: the INSERT INTO attempts, which raises when failed; the run
\* ends.
AddAttempt(s, failed) ==
    /\ Running(s, "log")
    /\ LET t == threads[s]
           result == t.result[1]
       IN  /\ attempts' =
                  try_except(failed,
                             Append(attempts,
                                    attempt_row(t.f.user_id, result.risk_score,
                                                t.status)),
                             attempts).value
           /\ last' = <<[c |-> Context(t), result |-> result,
                         critical_alerts |->
                             CountAlerts(result.alerts, "CRITICAL"),
                         status |-> t.status,
                         fail |-> t.fail
                                  \cup Failed(failed, "attempt_insert")]>>
           /\ ui' = Shown(t.status, failed)
    /\ threads' = Ended(s)
    /\ UNCHANGED <<users, device_intelligence, sim_intelligence,
                   fraud_patterns, notifications, now, utc_offset, legacy>>

\* The rows "Clear Archive" deletes: status='APPROVED' AND
\* datetime(timestamp) < datetime('now', '-1 day').
archived(row) ==
    row.status = "APPROVED" /\ row.timestamp < sqlite_now - DayMinutes

\* A run that has no form.
NoForm == Form("", "", "", "", <<0, 0>>)

\* "Clear Archive", up to the DELETE: the run reads the attempts
\* (get_attempts) and reaches the buttons of the Security Center only when
\* it has read rows; a press that reads none is a run without a handler.
PressClearArchive(s) ==
    /\ s \notin DOMAIN threads
    /\ attempts # <<>>
    /\ threads' = Upsert(threads, s, Run("archive_delete", NoForm, NoForm))
    /\ UNCHANGED <<users, device_intelligence, sim_intelligence,
                   fraud_patterns, attempts, notifications, now, utc_offset,
                   last, ui, legacy>>

\* "Clear Archive": the DELETE FROM attempts, on the table as it is by
\* now, and the message.
ClearArchive(s) ==
    /\ Running(s, "archive_delete")
    /\ attempts' = SelectSeq(attempts, LAMBDA row : ~archived(row))
    /\ ui' = <<"Archive cleared">>
    /\ last' = <<>>
    /\ threads' = Ended(s)
    /\ UNCHANGED <<users, device_intelligence, sim_intelligence,
                   fraud_patterns, notifications, now, utc_offset, legacy>>

\* A script run in which no handler's button is pressed: "Refresh
\* Dashboard" (st.rerun()), "Export Report", "Face ID Verification" or
\* "Fingerprint Scan" under a CHALLENGE, or a change of a widget.  The page
\* is drawn again with no message and no analysis.
Rerun(s) ==
    /\ s \notin DOMAIN threads
    /\ ui' = <<>>
    /\ last' = <<>>
    /\ UNCHANGED <<users, device_intelligence, sim_intelligence,
                   fraud_patterns, attempts, notifications, now, utc_offset,
                   threads, legacy>>

\* Time passes.
Tick(minutes) ==
    /\ now' = now + minutes
    /\ UNCHANGED <<users, device_intelligence, sim_intelligence,
                   fraud_patterns, attempts, notifications, utc_offset,
                   last, ui, threads, legacy>>

\* A statement of the analysis in the run of s.
AnalysisStatement(s) ==
    \/ SelectDevice(s)
    \/ UpdateDevice(s)
    \/ SelectSim(s)
    \/ SelectSwapFrequency(s)
    \/ InsertOrReplaceSim(s)
    \/ SelectRecentAttempts(s)
    \/ SelectPatterns(s)

\* A statement of an authentication in the run of s, on a store whose
\* writes succeed.
AuthStatement(s) ==
    \/ AnalysisStatement(s)
    \/ SendFraudAlert(s, FALSE)
    \/ AddAttempt(s, FALSE)

\* The authentications under way.
Authenticating ==
    {s \in DOMAIN threads : threads[s].pc \notin {"add_user", "archive_delete"}}

----------------------------------------------------------------------------
(* One pass of comprehensive_risk_analysis, layer by layer.  A pass carries *)
(* the two intelligence tables as its layers leave them, the risks and      *)
(* alerts gathered so far, the rows written, and whether an exception has   *)
(* left the pass.  user and login are the dicts passed in: a key they lack  *)
(* raises KeyError where the code subscripts it.  env.fail names the store  *)
(* queries that raise in this pass, env.rnd holds the random draws.         *)

Queries ==
    {"device_lookup", "device_update", "sim_lookup", "sim_update",
     "attempts_lookup", "pattern_lookup"}

\* d[k] for every k of keys raises no KeyError.
HasKeys(d, keys) == keys \subseteq DOMAIN d

StartPass(device_table, sim_table) ==
    [device_intelligence |-> device_table, sim_intelligence |-> sim_table,
     risk |-> EmptyTable, alerts |-> <<>>, writes |-> <<>>, raised |-> FALSE]

Raise(p) == [p EXCEPT !.raised = TRUE]

\* total_risk += risk; alerts.extend(layer_alerts); risk_breakdown[layer] = risk
Score(p, layer, r) ==
    [p EXCEPT !.risk = Upsert(p.risk, layer, r.risk),
              !.alerts = p.alerts \o r.alerts]

\* The row _update_sim_intelligence writes into a table.
sim_row(table, sim_id) ==
    [first_registered |-> now, last_used |-> now,
     swap_frequency |-> IF sim_id \in DOMAIN table
                        THEN table[sim_id].swap_frequency + 1 ELSE 1,
     suspicious_activity_count |-> 0]

\* Variant: the SIM layer refreshes the login device's row as well.
sim_layer_touching_device(p, user, login, env) ==
    IF ~(HasKeys(login, {"sim_id", "device_id"}) /\ HasKeys(user, {"sim_id"}))
    THEN Raise(p)
    ELSE IF login.sim_id = user.sim_id
    THEN Score(p, "sim_analysis", NoRisk)
    ELSE IF ~HasKeys(user, {"user_id"})
    THEN Raise(p)
    ELSE LET found == try_except("sim_lookup" \in env.fail,
                          IF user.user_id \in DOMAIN users
                          THEN row_of(p.sim_intelligence,
                                      users[user.user_id].sim_id)
                          ELSE <<>>,
                          <<>>)
             r == analyze_sim_intelligence(user, login, found.value, env.rnd)
         IN  [Score(p, "sim_analysis", r) EXCEPT
                 !.sim_intelligence =
                     Upsert(p.sim_intelligence, login.sim_id,
                            sim_row(p.sim_intelligence, login.sim_id)),
                 !.device_intelligence =
                     Upsert(p.device_intelligence, login.device_id,
                            device_row(login.device_id, env.rnd.rooted,
                                       env.rnd.trust)),
                 !.writes = p.writes
                            \o <<<<"sim_intelligence", login.sim_id>>,
                                 <<"device_intelligence", login.device_id>>>>]

\* Layer 1, _analyze_device_intelligence.
device_layer(p, user, login, env) ==
    IF ~(HasKeys(login, {"device_id"}) /\ HasKeys(user, {"device_id"}))
    THEN Raise(p)
    ELSE IF login.device_id = user.device_id
    THEN Score(p, "device_analysis", NoRisk)
    ELSE LET found == try_except("device_lookup" \in env.fail,
                          row_of(p.device_intelligence, login.device_id),
                          <<>>)
             r == analyze_device_intelligence(user, login, found.value)
             failed == "device_update" \in env.fail
             written == try_except(failed,
                            Upsert(p.device_intelligence, login.device_id,
                                   device_row(login.device_id, env.rnd.rooted,
                                              env.rnd.trust)),
                            p.device_intelligence)
         IN  IF found.raised \/ ~HasKeys(user, {"user_id"}) \/ written.raised
             THEN Raise(p)
             ELSE [Score(p, "device_analysis", r) EXCEPT
                      !.device_intelligence = written.value,
                      !.writes =
                          IF failed THEN p.writes
                          ELSE Append(p.writes,
                                      <<"device_intelligence",
                                        login.device_id>>)]

\* Layer 2, _analyze_sim_intelligence.
sim_layer(p, user, login, env) ==
    IF ~(HasKeys(login, {"sim_id"}) /\ HasKeys(user, {"sim_id"}))
    THEN Raise(p)
    ELSE IF login.sim_id = user.sim_id
    THEN Score(p, "sim_analysis", NoRisk)
    ELSE IF ~HasKeys(user, {"user_id"})
    THEN Raise(p)
    ELSE LET found == try_except("sim_lookup" \in env.fail,
                          IF user.user_id \in DOMAIN users
                          THEN row_of(p.sim_intelligence,
                                      users[user.user_id].sim_id)
                          ELSE <<>>,
                          <<>>)
             r == analyze_sim_intelligence(user, login, found.value, env.rnd)
             failed == "sim_update" \in env.fail
             written == try_except(failed,
                            Upsert(p.sim_intelligence, login.sim_id,
                                   sim_row(p.sim_intelligence, login.sim_id)),
                            p.sim_intelligence)
         IN  IF found.raised \/ written.raised
             THEN Raise(p)
             ELSE [Score(p, "sim_analysis", r) EXCEPT
                      !.sim_intelligence = written.value,
                      !.writes =
                          IF failed THEN p.writes
                          ELSE Append(p.writes,
                                      <<"sim_intelligence", login.sim_id>>)]

\* Layer 3, _analyze_geospatial_intelligence.
geo_layer(p, user, login, env) ==
    IF ~(HasKeys(user, {"loc"}) /\ HasKeys(login, {"loc"}))
    THEN Raise(p)
    ELSE Score(p, "geospatial_analysis",
               analyze_geospatial_intelligence(user, login, env.rnd))

\* Layer 4, _analyze_behavioral_biometrics: login.get(key, 0) in the bot
\* test, subscripts after it.
behavior_layer(p, user, login, env) ==
    LET speeds == {"keystroke_speed", "mouse_speed"}
        bot == HasKeys(login, speeds) /\ detect_bot_behavior(login)
    IN  IF ~bot /\ ~(HasKeys(user, speeds) /\ HasKeys(login, speeds))
        THEN Raise(p)
        ELSE Score(p, "behavioral_analysis",
                   analyze_behavioral_biometrics(user, login))

\* Layer 5, _analyze_temporal_patterns.
temporal_layer(p, user, login, env) ==
    IF ~HasKeys(user, {"user_id"})
    THEN Raise(p)
    ELSE LET recent == try_except("attempts_lookup" \in env.fail,
                           Cardinality(get_recent_attempts(user.user_id, 10)),
                           0)
         IN  IF recent.raised
             THEN Raise(p)
             ELSE Score(p, "temporal_analysis",
                        analyze_temporal_patterns(hour_of(now), recent.value))

\* Layer 6, _analyze_network_intelligence.
network_layer(p, user, login, env) ==
    Score(p, "network_analysis", analyze_network_intelligence(env.rnd))

\* Layer 7, _analyze_fraud_patterns: the subscripts of login are inside the
\* try of _check_fraud_patterns.
pattern_layer(p, user, login, env) ==
    LET failed == "pattern_lookup" \in env.fail
                  \/ ~HasKeys(login, {"device_id", "sim_id"})
        fraud_confidence ==
            try_except(failed,
                       check_fraud_patterns(select_max_confidence(login),
                                            env.rnd.pattern),
                       0)
    IN  IF fraud_confidence.raised
        THEN Raise(p)
        ELSE Score(p, "pattern_analysis",
                   fraud_pattern_rule(fraud_confidence.value))

Layer(name, p, user, login, env) ==
    CASE name = "device_analysis" -> device_layer(p, user, login, env)
      [] name = "sim_analysis" -> sim_layer(p, user, login, env)
      [] name = "geospatial_analysis" -> geo_layer(p, user, login, env)
      [] name = "behavioral_analysis" -> behavior_layer(p, user, login, env)
      [] name = "temporal_analysis" -> temporal_layer(p, user, login, env)
      [] name = "network_analysis" -> network_layer(p, user, login, env)
      [] name = "pattern_analysis" -> pattern_layer(p, user, login, env)

\* The layers in the order comprehensive_risk_analysis calls them.
CodeOrder ==
    <<"device_analysis", "sim_analysis", "geospatial_analysis",
      "behavioral_analysis", "temporal_analysis", "network_analysis",
      "pattern_analysis">>

\* The layers of order one after the other, until one raises.
RECURSIVE RunLayers(_, _, _, _, _)
RunLayers(order, p, user, login, env) ==
    IF order = <<>> \/ p.raised
    THEN p
    ELSE RunLayers(Tail(order), Layer(Head(order), p, user, login, env),
                   user, login, env)

\* What comprehensive_risk_analysis returns at the end of a pass.
pass_result(p) ==
    [risk_score |->
         cap_total(p.risk.device_analysis + p.risk.sim_analysis
                   + p.risk.geospatial_analysis + p.risk.behavioral_analysis
                   + p.risk.temporal_analysis + p.risk.network_analysis
                   + p.risk.pattern_analysis),
     alerts |-> p.alerts,
     risk_breakdown |-> p.risk,
     ml_confidence |-> calculate_ml_confidence(p.alerts)]

\* A direct call of comprehensive_risk_analysis(user, login): the layers in
\* the code's order on the stores as they are.  The page keeps the outcome:
\* the exception, or the tuple returned.
Evaluate(user, login, env) ==
    LET p == RunLayers(CodeOrder,
                       StartPass(device_intelligence, sim_intelligence),
                       user, login, env)
    IN  /\ device_intelligence' = p.device_intelligence
        /\ sim_intelligence' = p.sim_intelligence
        /\ last' = <<[user |-> user, login |-> login, env |-> env,
                      before |-> StartPass(device_intelligence,
                                           sim_intelligence),
                      raised |-> p.raised,
                      writes |-> p.writes,
                      result |-> IF p.raised THEN <<>>
                                 ELSE <<pass_result(p)>>]>>
        /\ UNCHANGED <<users, fraud_patterns, attempts, notifications, now,
                       utc_offset, threads, legacy, ui>>

----------------------------------------------------------------------------
(* The legacy backend (previous_test/backend/main.py): two endpoints over  *)
(* the module-level dicts users_db and sessions_db.  A response is the     *)
(* record [code, detail, session]: the HTTP status, the message of an      *)
(* HTTPException or of /register, and <<>> or the one dict /login returns. *)
(* The key of a session, a fresh uuid4, is its position in sessions_db.    *)

DISTANCE_THRESHOLD_KM == 1000

NoResponse == [code |-> 0, detail |-> "", session |-> <<>>]

\* The request body of /register and /login.
LegacyData(user_id, device_id, sim_id, loc, bio) ==
    [user_id |-> user_id,
     device_info |-> [device_id |-> device_id, sim_id |-> sim_id,
                      location |-> loc],
     behavioral_data |-> [user_id |-> user_id, keystroke_speed |-> bio[1],
                          mouse_movement |-> bio[2]]]

\* haversine (R = 6371) on the named places.
haversine(l1, l2) == calculate_distance(l1, l2)

behavior_difference(a, b) ==
    abs(a.keystroke_speed - b.keystroke_speed)
    + abs(a.mouse_movement - b.mouse_movement)

\* An alert of /login: its text and the number formatted into it.
LegacyAlert(msg, n) == [msg |-> msg, n |-> n]

\* Variant: a risk of 50 is blocked.
login_session_blocked_from_50(user, attempt) ==
    LET device == IF attempt.device_info.device_id # user.device_id
                  THEN Add(NoRisk, 50, LegacyAlert("New device detected", 0))
                  ELSE NoRisk
        sim == IF attempt.device_info.sim_id # user.sim_id
               THEN Add(device, 50, LegacyAlert("SIM swap detected", 0))
               ELSE device
        dist == haversine(user.location, attempt.device_info.location)
        travel == IF dist > DISTANCE_THRESHOLD_KM
                  THEN Add(sim, 30, LegacyAlert("Impossible travel", dist))
                  ELSE sim
        behav_diff == behavior_difference(user.behavior,
                                          attempt.behavioral_data)
        scored == IF behav_diff > 100
                  THEN Add(travel, 40, LegacyAlert("Behavioral anomaly", 0))
                  ELSE travel
    IN  [user_id |-> attempt.user_id, risk_score |-> scored.risk,
         alerts |-> scored.alerts,
         status |-> IF scored.risk >= 50 THEN "blocked" ELSE "approved"]

\* The scoring of /login: the dict stored in sessions_db.
login_session(user, attempt) ==
    LET device == IF attempt.device_info.device_id # user.device_id
                  THEN Add(NoRisk, 50, LegacyAlert("New device detected", 0))
                  ELSE NoRisk
        sim == IF attempt.device_info.sim_id # user.sim_id
               THEN Add(device, 50, LegacyAlert("SIM swap detected", 0))
               ELSE device
        dist == haversine(user.location, attempt.device_info.location)
        travel == IF dist > DISTANCE_THRESHOLD_KM
                  THEN Add(sim, 30, LegacyAlert("Impossible travel", dist))
                  ELSE sim
        behav_diff == behavior_difference(user.behavior,
                                          attempt.behavioral_data)
        scored == IF behav_diff > 100
                  THEN Add(travel, 40, LegacyAlert("Behavioral anomaly", 0))
                  ELSE travel
    IN  [user_id |-> attempt.user_id, risk_score |-> scored.risk,
         alerts |-> scored.alerts,
         status |-> IF scored.risk > 50 THEN "blocked" ELSE "approved"]

\* The dict a successful /login returns: the key the session was stored
\* under, and the session's risk, alerts and status, without its user_id.
login_response(sid, session) ==
    [session_id |-> sid, risk_score |-> session.risk_score,
     alerts |-> session.alerts, status |-> session.status]

\* POST /register
register_user(data) ==
    /\ IF data.user_id \in DOMAIN users_db
       THEN /\ response' = [code |-> 400, detail |-> "User already exists",
                            session |-> <<>>]
            /\ UNCHANGED users_db
       ELSE /\ users_db' =
                   Upsert(users_db, data.user_id,
                          [device_id |-> data.device_info.device_id,
                           sim_id |-> data.device_info.sim_id,
                           location |-> data.device_info.location,
                           behavior |-> data.behavioral_data])
            /\ response' = [code |-> 200, detail |-> "Registration success",
                            session |-> <<>>]
    /\ UNCHANGED <<users, device_intelligence, sim_intelligence,
                   fraud_patterns, attempts, notifications, now, utc_offset,
                   last, ui, threads, sessions_db>>

\* Variant: an unknown user is scored against the attempt itself.
login_unchecked(attempt) ==
    LET user == IF attempt.user_id \in DOMAIN users_db
                THEN users_db[attempt.user_id]
                ELSE [device_id |-> attempt.device_info.device_id,
                      sim_id |-> attempt.device_info.sim_id,
                      location |-> attempt.device_info.location,
                      behavior |-> attempt.behavioral_data]
        session == login_session(user, attempt)
        sid == Len(sessions_db) + 1
    IN  /\ sessions_db' = Append(sessions_db, session)
        /\ response' = [code |-> 200, detail |-> "",
                        session |-> <<login_response(sid, session)>>]
        /\ UNCHANGED <<users, device_intelligence, sim_intelligence,
                       fraud_patterns, attempts, notifications, now,
                       utc_offset, last, ui, threads, users_db>>

\* POST /login
login(attempt) ==
    /\ IF attempt.user_id \notin DOMAIN users_db
       THEN /\ response' = [code |-> 404, detail |-> "User not found",
                            session |-> <<>>]
            /\ UNCHANGED sessions_db
       ELSE LET session == login_session(users_db[attempt.user_id], attempt)
                sid == Len(sessions_db) + 1
            IN  /\ sessions_db' = Append(sessions_db, session)
                /\ response' =
                       [code |-> 200, detail |-> "",
                        session |-> <<login_response(sid, session)>>]
    /\ UNCHANGED <<users, device_intelligence, sim_intelligence,
                   fraud_patterns, attempts, notifications, now, utc_offset,
                   last, ui, threads, users_db>>

----------------------------------------------------------------------------
(* The system from the database initialize_database creates: every table   *)
(* empty.  Two browser sessions are open on the page.                      *)

\* Rows of fraud_patterns.  The program reads the table and never writes
\* it: rows are in it only when they were put into the database from
\* outside.
PatternFeed ==
    {[device_id |-> "emulator_device_101", sim_id |-> "virtual_sim_101",
      confidence_score |-> 90]}

StartTime == 4 * 60 + 54

\* The logins pressed: u1 on the trusted device with the primary SIM, and
\* u1 on an emulator with the swapped SIM.
SysForms ==
    {Form("u1", "trusted_device_001", "primary_sim_001", "bangalore",
          <<170, 200>>),
     Form("u1", "emulator_device_101", "swapped_sim_101", "bangalore",
          <<170, 200>>)}

\* The registrations pressed: u1 with either SIM, u1 without a passphrase,
\* and a passphrase without a user id.
RegForms ==
    {Form("u1", "trusted_device_001", s, "bangalore", <<170, 200>>) :
        s \in Sims}
    \cup {Form("u1", "trusted_device_001", "primary_sim_001", "bangalore",
               <<0, 0>>),
          Form("", "trusted_device_001", "primary_sim_001", "bangalore",
               <<170, 200>>)}

\* The steps of the clock: past 05:00, and past a day.  The clock steps
\* between runs and between the statements of a run, each of which reads
\* datetime.now() for itself.
TickSizes == {TickMinutes, DayMinutes}

\* The passes explored from the empty database: the location, cloning,
\* dual-SIM and rooting draws on the side where their rule stays silent.
SysDraws(rnd) ==
    /\ rnd.location \in {0, 35}
    /\ rnd.clone \in {0, 45}
    /\ rnd.dual \in {0, 50}
    /\ rnd.rooted \in {0, 50}

Init ==
    /\ users = EmptyTable
    /\ device_intelligence = EmptyTable
    /\ sim_intelligence = EmptyTable
    /\ fraud_patterns = {}
    /\ attempts = <<>>
    /\ notifications = <<>>
    /\ now = StartTime
    /\ utc_offset = 0
    /\ last = <<>>
    /\ ui = <<>>
    /\ threads = EmptyTable
    /\ users_db = EmptyTable
    /\ sessions_db = <<>>
    /\ response = NoResponse

Next ==
    \/ \E s \in Sessions :
           \/ \E f \in RegForms :
                  /\ PressRegister(s, f)
           \/ AddUser(s)
           \/ \E f \in SysForms :
                  /\ Len(attempts) + Cardinality(Authenticating) < MaxAttempts
                  /\ now < StartTime + DayMinutes
                  /\ PressAuthenticate(s, f)
           \/ /\ AuthStatement(s)
              /\ s \in DOMAIN threads' => SysDraws(threads'[s].rnd)
           \/ Rerun(s)
           \/ PressClearArchive(s)
           \/ ClearArchive(s)
    \/ \E minutes \in TickSizes :
           /\ IF minutes = DayMinutes
              THEN now < StartTime + DayMinutes
              ELSE (now - StartTime) % DayMinutes < MaxTicks * TickMinutes
           /\ Tick(minutes)

Spec == Init /\ [][Next]_vars

----------------------------------------------------------------------------
(* One evaluation, over a wide range of profiles, logins and stored        *)
(* intelligence.  Every seeded row is one the handlers above write, but    *)
(* for the SIM row whose swap_frequency is the column's default.           *)

\* Pairs the form submits on the edges of the deviation bands: against the
\* enrolled <<150, 180>> they differ by 100, 101 and 151.
BoundaryBiometrics ==
    FormBiometrics \cap
    {<<119, 111>>, <<119, 110>>, <<89, 90>>}

\* The enrolled login, but for the biometrics.
PlainForms(bios) ==
    {Form("u1", "trusted_device_001", "primary_sim_001", "bangalore", b) :
        b \in bios}

EvalForms ==
    {Form("u1", d, s, l, b) :
        d \in Devices, s \in Sims, l \in Locations, b \in Biometrics}
    \cup PlainForms(BoundaryBiometrics)

\* The biometrics u1 enrolled with, each a pair the form submits: two of
\* normal operation, the second 158 away from the bot signature, and the
\* bot signature itself.
EnrolledBiometrics ==
    FormBiometrics \cap
    {<<150, 180>>, <<189, 219>>, <<100, 150>>}

\* The enrolled profiles: u1 as the demo registers it in normal operation,
\* u2 enrolled on another device and SIM.
EvalUsers ==
    {[u \in Users |->
        IF u = "u1"
        THEN Form("u1", "trusted_device_001", "primary_sim_001",
                  "bangalore", b)
        ELSE Form("u2", "attack_device_101", "swapped_sim_101",
                  "mumbai", <<170, 200>>)] :
     b \in EnrolledBiometrics}

\* No device seen yet, or every device seen once as a changed device.
EvalDeviceTables ==
    {EmptyTable} \cup
    {[d \in Devices |-> device_row(d, r, t)] :
        r \in RootedDraws, t \in TrustDraws}

\* u1's enrolled SIM used k times as a changed SIM by u2, or on file with
\* swap_frequency 0, the column's default: a row that was put into the
\* table from outside, the program writing 1 or more.
EvalSimTables ==
    {EmptyTable} \cup
    {[s \in {"primary_sim_001"} |->
        [first_registered |-> now, last_used |-> now,
         swap_frequency |-> k, suspicious_activity_count |-> 0]] :
     k \in 0..MaxSwapSeed}

\* n attempts of one user logged age minutes ago.
Logged(user_id, n, risk_score, status, age) ==
    [i \in 1..n |->
        [attempt_row(user_id, risk_score, status) EXCEPT
            !.timestamp = now - age]]

\* The notifications stored for the BLOCKED attempts of a log.
NotificationsOf(log) ==
    LET blocked == SelectSeq(log, LAMBDA row : row.status = "BLOCKED")
    IN  [i \in DOMAIN blocked |->
            [user_id |-> blocked[i].user_id,
             risk_score |-> blocked[i].risk_score,
             priority_level |-> priority(blocked[i].risk_score),
             sent_time |-> blocked[i].timestamp]]

\* n CHALLENGE attempts of u1 logged this minute.
EvalAttempts(n) == Logged("u1", n, 65, "CHALLENGE", 0)

\* Where the host's clock can stand against UTC: on it, at +05:30, at
\* -05:00.
HostOffsets == {0, 330, 0 - 300}

\* Histories around the rapid-attempts rule, as <<utc_offset, attempts>>:
\* one attempt short of the burst; a burst of APPROVED attempts; a burst of
\* another user's; a burst 9 minutes long; a burst with its first attempt 11
\* minutes old; and, on hosts off UTC, a burst an hour old and a burst of
\* this minute.
EvalHistories ==
    {<<0, EvalAttempts(MaxSeedAttempts - 1)>>,
     <<0, Logged("u1", MaxSeedAttempts, 0, "APPROVED", 0)>>,
     <<0, Logged("u2", MaxSeedAttempts, 80, "BLOCKED", 0)>>,
     <<0, Logged("u1", 3, 80, "BLOCKED", 9)
          \o EvalAttempts(MaxSeedAttempts - 3)>>,
     <<0, Logged("u1", 1, 65, "CHALLENGE", 11)
          \o EvalAttempts(MaxSeedAttempts - 1)>>,
     <<330, Logged("u1", MaxSeedAttempts, 65, "CHALLENGE", 60)>>,
     <<0 - 300, EvalAttempts(MaxSeedAttempts)>>}

\* The histories every login is explored from.
WideSeed ==
    /\ utc_offset = 0
    /\ attempts \in {EvalAttempts(0), EvalAttempts(MaxSeedAttempts)}

\* The clock and the number of u1's attempts on file: at night, at noon, and
\* at noon after a burst of attempts.
EvalClocks ==
    {<<StartTime, 0>>, <<12 * 60, 0>>, <<12 * 60, MaxSeedAttempts>>}

InitEval ==
    /\ \/ \E s \in EvalClocks :
              now = s[1] /\ utc_offset = 0 /\ attempts = EvalAttempts(s[2])
       \/ /\ now = 12 * 60
          /\ \E h \in EvalHistories : utc_offset = h[1] /\ attempts = h[2]
    /\ users \in EvalUsers
    /\ device_intelligence \in EvalDeviceTables
    /\ sim_intelligence \in EvalSimTables
    /\ fraud_patterns = {}
    /\ notifications = NotificationsOf(attempts)
    /\ last = <<>>
    /\ ui = <<>>
    /\ threads = EmptyTable
    /\ users_db = EmptyTable
    /\ sessions_db = <<>>
    /\ response = NoResponse

\* A login on the enrolled device (SIM) reads no device (SIM) intelligence:
\* it is explored from the empty table only.  The profiles enrolled with
\* other biometrics are explored with the bot's login, the histories around
\* the rapid-attempts rule with the enrolled login.  The layers do not read
\* one another's inputs: the biometrics between the enrolled ones and the
\* bot's, and the places between the enrolled one and the farthest, are
\* explored on the enrolled device, and the night with the enrolled place.
Relevant(f) ==
    /\ f.device_id = users[f.user_id].device_id
            => device_intelligence = EmptyTable
    /\ f.sim_id = users[f.user_id].sim_id
            => sim_intelligence = EmptyTable
    /\ <<f.keystroke_speed, f.mouse_speed>> \notin {<<150, 180>>, <<100, 150>>}
            => f.device_id = users[f.user_id].device_id
    /\ f.loc \notin {"bangalore", "london"}
            => f.device_id = users[f.user_id].device_id
    /\ now = StartTime => f.loc = "bangalore"
    /\ users[f.user_id].keystroke_speed # 150
            => f \in PlainForms({<<100, 150>>})
    /\ ~WideSeed => f \in PlainForms({<<150, 180>>})

\* One press of "Authenticate User" in one session, and the statements of
\* its run.
NextEval ==
    \/ /\ last = <<>>
       /\ \E f \in EvalForms : Relevant(f) /\ PressAuthenticate("s1", f)
    \/ AuthStatement("s1")

EvalSpec == InitEval /\ [][NextEval]_vars

----------------------------------------------------------------------------
(* The engine called directly: comprehensive_risk_analysis(user, login) on *)
(* dicts the caller builds, over a connection the caller passes to         *)
(* AdvancedFraudEngine: a database whose queries may fail, and whose       *)
(* fraud_patterns table the caller may have filled.                        *)

\* The enrolled profile the calls pass as user.
EngineUser ==
    Form("u1", "trusted_device_001", "primary_sim_001", "bangalore",
         <<170, 200>>)

\* Logins with every field: each of device, SIM, place and behaviour either
\* as enrolled or changed.
EngineLogins ==
    {Form("u1", d, s, l, b) :
        d \in {"trusted_device_001", "emulator_device_101"},
        s \in Sims,
        l \in {"bangalore", "london"},
        b \in {<<170, 200>>, <<100, 150>>}}

\* The dict d without key k.
Without(d, k) == [x \in DOMAIN d \ {k} |-> d[x]]

\* Logins lacking one field: of the login that changes everything, and of
\* the one that changes device and SIM only.
MalformedLogins ==
    {Without(Form("u1", "emulator_device_101", "swapped_sim_101", l,
                  <<170, 200>>), k) :
        l \in {"bangalore", "london"},
        k \in {"device_id", "sim_id", "loc", "keystroke_speed",
               "mouse_speed"}}

\* Profiles lacking one field.
MalformedUsers ==
    {Without(EngineUser, k) :
        k \in {"user_id", "device_id", "sim_id", "loc", "keystroke_speed",
               "mouse_speed"}}

\* The draws of a pass in which no random rule fires, and of one in which
\* every random rule fires.
EngineDraws ==
    {[network |-> 50, clone |-> 45, dual |-> 50, location |-> 35,
      pattern |-> 25, rooted |-> 50, trust |-> 80],
     [network |-> 5, clone |-> 85, dual |-> 5, location |-> 75,
      pattern |-> 25, rooted |-> 2, trust |-> 80]}

\* No query fails, or one does.
Failures == {{}} \cup {{q} : q \in Queries}

\* <<user, login, env>>: the well-formed calls under every failure, the
\* malformed ones on a healthy store.
EngineCalls ==
    {<<EngineUser, l, [fail |-> f, rnd |-> r]>> :
        l \in EngineLogins, f \in Failures, r \in EngineDraws}
    \cup {<<EngineUser, l, [fail |-> {}, rnd |-> r]>> :
            l \in MalformedLogins, r \in EngineDraws}
    \cup {<<u, l, [fail |-> {}, rnd |-> r]>> :
            u \in MalformedUsers, r \in EngineDraws,
            l \in {EngineUser,
                   Form("u1", "emulator_device_101", "swapped_sim_101",
                        "london", <<100, 150>>)}}

InitEngine ==
    /\ now = 12 * 60
    /\ utc_offset = 0
    /\ attempts \in {EvalAttempts(0), EvalAttempts(MaxSeedAttempts)}
    /\ users \in {[u \in Users |->
                     IF u = "u1" THEN EngineUser
                     ELSE Form("u2", "attack_device_101", "swapped_sim_101",
                               "mumbai", <<170, 200>>)]}
    /\ device_intelligence \in
           {EmptyTable, [d \in Devices |-> device_row(d, 50, 80)]}
    /\ sim_intelligence \in
           {EmptyTable,
            [s \in Sims |->
                [first_registered |-> now, last_used |-> now,
                 swap_frequency |-> MaxSwapSeed,
                 suspicious_activity_count |-> 0]]}
    /\ fraud_patterns \in {{}, PatternFeed}
    /\ notifications = <<>>
    /\ last = <<>>
    /\ ui = <<>>
    /\ threads = EmptyTable
    /\ users_db = EmptyTable
    /\ sessions_db = <<>>
    /\ response = NoResponse

NextEngine ==
    /\ last = <<>>
    /\ \E c \in EngineCalls : Evaluate(c[1], c[2], c[3])

EngineSpec == InitEngine /\ [][NextEngine]_vars

----------------------------------------------------------------------------
(* The page with both users enrolled, on a store whose writes may fail:    *)
(* one session, whose presses follow one another.                          *)

MaxPageAttempts == 3

\* u1 enrolled as the demo enrols it, u2 on another device and on the SIM
\* u1 swaps to.
PageUsers ==
    [u \in Users |->
        IF u = "u1"
        THEN Form("u1", "trusted_device_001", "primary_sim_001", "bangalore",
                  <<170, 200>>)
        ELSE Form("u2", "attack_device_101", "swapped_sim_101", "bangalore",
                  <<170, 200>>)]

\* Logins of either user from the enrolled place with the enrolled
\* behaviour, on the trusted device, an emulator or u2's device, with either
\* SIM.
PageForms ==
    {Form(u, d, s, "bangalore", <<170, 200>>) :
        u \in Users,
        d \in {"trusted_device_001", "emulator_device_101",
               "attack_device_101"},
        s \in Sims}

\* The passes explored: the network, location, cloning and dual-SIM draws
\* on the side where their rule stays silent.
PageDraws(rnd) ==
    /\ rnd.network \in {0, 50}
    /\ rnd.location \in {0, 35}
    /\ rnd.clone \in {0, 45}
    /\ rnd.dual \in {0, 50}

InitPage ==
    /\ users = PageUsers
    /\ device_intelligence = EmptyTable
    /\ sim_intelligence = EmptyTable
    /\ fraud_patterns = {}
    /\ attempts = <<>>
    /\ notifications = <<>>
    /\ now = 12 * 60
    /\ utc_offset = 0
    /\ last = <<>>
    /\ ui = <<>>
    /\ threads = EmptyTable
    /\ users_db = EmptyTable
    /\ sessions_db = <<>>
    /\ response = NoResponse

\* Presses of "Authenticate User" and the statements of their runs; the
\* pressing stops after MaxPageAttempts logged attempts, or after a run
\* during which a write failed.
NextPage ==
    \/ /\ Len(attempts) < MaxPageAttempts
       /\ last # <<>> => last[1].fail = {}
       /\ \E f \in PageForms : PressAuthenticate("s1", f)
    \/ /\ AnalysisStatement("s1")
       /\ PageDraws(threads'["s1"].rnd)
    \/ \E failed \in BOOLEAN : SendFraudAlert("s1", failed)
    \/ \E failed \in BOOLEAN : AddAttempt("s1", failed)

PageSpec == InitPage /\ [][NextPage]_vars

----------------------------------------------------------------------------
(* Two sessions authenticating at once, both users enrolled: the           *)
(* statements of the two runs interleave on the one connection.            *)

MaxConcurrentAttempts == 2

\* Logins of either user on the trusted device or an emulator, with the
\* primary SIM or a virtual one.
ConcurrentForms ==
    {Form(u, d, s, "bangalore", <<170, 200>>) :
        u \in Users,
        d \in {"trusted_device_001", "emulator_device_101"},
        s \in {"primary_sim_001", "virtual_sim_101"}}

\* Both users enrolled on a device and a SIM of their own.
ConcurrentUsers ==
    [u \in Users |->
        IF u = "u1"
        THEN Form("u1", "trusted_device_001", "primary_sim_001", "bangalore",
                  <<170, 200>>)
        ELSE Form("u2", "attack_device_101", "swapped_sim_101", "bangalore",
                  <<170, 200>>)]

InitConcurrent ==
    /\ now = 12 * 60
    /\ users = ConcurrentUsers
    /\ device_intelligence = EmptyTable
    /\ sim_intelligence \in
           {EmptyTable,
            [s \in {"virtual_sim_101"} |-> sim_row_with(now, MaxSwapSeed)]}
    /\ fraud_patterns = {}
    /\ attempts = <<>>
    /\ notifications = <<>>
    /\ utc_offset = 0
    /\ last = <<>>
    /\ ui = <<>>
    /\ threads = EmptyTable
    /\ users_db = EmptyTable
    /\ sessions_db = <<>>
    /\ response = NoResponse

NextConcurrent ==
    \E s \in Sessions :
        \/ \E f \in ConcurrentForms :
               /\ Len(attempts) + Cardinality(Authenticating)
                      < MaxConcurrentAttempts
               /\ PressAuthenticate(s, f)
        \/ /\ AnalysisStatement(s)
           /\ PageDraws(threads'[s].rnd)
           /\ threads'[s].rnd.rooted \in {0, 50}
        \/ SendFraudAlert(s, FALSE)
        \/ AddAttempt(s, FALSE)

ConcurrentSpec == InitConcurrent /\ [][NextConcurrent]_vars

----------------------------------------------------------------------------
(* The legacy backend from empty dicts, beside a page on which only u1 is  *)
(* enrolled and u2 tries to authenticate.                                  *)

MaxSessions == 2

LegacyRegistrations ==
    {LegacyData(u, "trusted_device_001", "primary_sim_001", "bangalore",
                <<170, 200>>) : u \in Users}

\* Against the registration: the device and the SIM the same or not, the
\* place 0, 845 or 2705 km away, the behaviour 0, 100 or 150 apart.
LegacyAttempts ==
    {LegacyData(u, d, s, l, b) :
        u \in Users,
        d \in {"trusted_device_001", "emulator_device_101"},
        s \in Sims,
        l \in {"bangalore", "mumbai", "dubai"},
        b \in {<<170, 200>>, <<120, 150>>, <<110, 110>>}}

\* What u2, who is not enrolled, submits on the page.
UnknownUserForms ==
    {Form("u2", d, s, "bangalore", <<170, 200>>) :
        d \in {"trusted_device_001", "emulator_device_101"}, s \in Sims}

\* The page has scored one attempt of u1, on the emulator with the swapped
\* SIM: logged BLOCKED, its notification stored.
InitLegacy ==
    /\ now = 12 * 60
    /\ utc_offset = 0
    /\ users = [u \in {"u1"} |-> PageUsers[u]]
    /\ device_intelligence =
           [d \in {"emulator_device_101"} |-> device_row(d, 50, 80)]
    /\ sim_intelligence =
           [s \in {"swapped_sim_101"} |-> sim_row_with(now, 1)]
    /\ fraud_patterns = {}
    /\ attempts = Logged("u1", 1, 100, "BLOCKED", 0)
    /\ notifications = NotificationsOf(attempts)
    /\ last = <<>>
    /\ ui = <<>>
    /\ threads = EmptyTable
    /\ users_db = EmptyTable
    /\ sessions_db = <<>>
    /\ response = NoResponse

NextLegacy ==
    \/ \E data \in LegacyRegistrations : register_user(data)
    \/ \E attempt \in LegacyAttempts :
           Len(sessions_db) < MaxSessions /\ login(attempt)
    \/ \E f \in UnknownUserForms : PressAuthenticate("s1", f)

LegacySpec == InitLegacy /\ [][NextLegacy]_vars

----------------------------------------------------------------------------
(* Properties.  R is the analysis on display, C what it read.              *)

Evaluated == last # <<>>

R == last[1].result

C == last[1].c

Status == last[1].status

BreakdownSum ==
    R.risk_breakdown.device_analysis + R.risk_breakdown.sim_analysis
    + R.risk_breakdown.geospatial_analysis
    + R.risk_breakdown.behavioral_analysis
    + R.risk_breakdown.temporal_analysis + R.risk_breakdown.network_analysis
    + R.risk_breakdown.pattern_analysis

HasAlert(sev, msg) ==
    \E i \in DOMAIN R.alerts : R.alerts[i].sev = sev /\ R.alerts[i].msg = msg

\* The number of alerts whose text is one of msgs.
AlertsAmong(msgs) ==
    Cardinality({i \in DOMAIN R.alerts : R.alerts[i].msg \in msgs})

DeviceChanged == C.login.device_id # C.user.device_id

SimChanged == C.login.sim_id # C.user.sim_id

DistanceKm == calculate_distance(C.user.loc, C.login.loc)

BehaviorDiff ==
    abs(C.user.keystroke_speed - C.login.keystroke_speed)
    + abs(C.user.mouse_speed - C.login.mouse_speed)

BotSignature == C.login.keystroke_speed = 100 /\ C.login.mouse_speed = 150

\* No rule outside the device layer has its trigger: no SIM change, no
\* travel, no behavioural deviation, a normal hour, no provider signal, no
\* rapid attempts.
NothingElseFires ==
    /\ ~SimChanged
    /\ DistanceKm <= 500
    /\ ~BotSignature /\ BehaviorDiff <= 50
    /\ C.hour >= 5 /\ C.hour <= 23
    /\ C.recent_attempts <= 5
    /\ C.rnd.network >= 12 /\ C.rnd.location <= 70

\* C1: the total score is an integer in [0,100] and equals min(100, the sum
\* of the seven breakdown entries); every breakdown entry is a non-negative
\* integer.
C1_TotalIsCappedBreakdownSum ==
    Evaluated =>
        /\ R.risk_score \in 0..100
        /\ R.risk_score = (IF BreakdownSum > 100 THEN 100 ELSE BreakdownSum)
        /\ DOMAIN R.risk_breakdown =
               {"device_analysis", "sim_analysis", "geospatial_analysis",
                "behavioral_analysis", "temporal_analysis",
                "network_analysis", "pattern_analysis"}
        /\ \A k \in DOMAIN R.risk_breakdown : R.risk_breakdown[k] \in Nat

\* C1 witness: an evaluation whose layers sum to more than 100 and whose
\* total is the cap.
C1_Witness == Evaluated /\ BreakdownSum > 100 /\ R.risk_score = 100

\* C2: the status is BLOCKED iff score >= 80 or at least two CRITICAL
\* alerts, else CHALLENGE iff score >= 50 or one CRITICAL alert, else
\* APPROVED; the logged attempt carries that status.
C2_StatusFromScoreAndCriticals ==
    Evaluated =>
        LET n == CountAlerts(R.alerts, "CRITICAL")
            blocked == R.risk_score >= 80 \/ n >= 2
            challenge == ~blocked /\ (R.risk_score >= 50 \/ n >= 1)
        IN  /\ (Status = "BLOCKED") <=> blocked
            /\ (Status = "CHALLENGE") <=> challenge
            /\ (Status = "APPROVED") <=> (~blocked /\ ~challenge)
            /\ attempts[Len(attempts)].status = Status

\* C2 witness: two CRITICAL alerts, the score capped at 100, BLOCKED.
C2_Witness ==
    /\ Evaluated
    /\ CountAlerts(R.alerts, "CRITICAL") = 2
    /\ BreakdownSum > 100
    /\ Status = "BLOCKED"

UnknownDeviceOnly ==
    /\ Evaluated
    /\ DeviceChanged /\ C.device_intel = <<>>
    /\ NothingElseFires

\* C3 as claimed: a changed device without intelligence, nothing else
\* firing, scores 80 with the one CRITICAL unknown-device alert and is
\* CHALLENGE.
C3_UnknownDeviceAloneChallenge ==
    UnknownDeviceOnly =>
        /\ R.risk_score = 80
        /\ R.alerts = <<Alert("CRITICAL", "Unknown device detected", 0)>>
        /\ Status = "CHALLENGE"

\* C3 amended: a changed device without intelligence, nothing else firing,
\* scores 80 with the one CRITICAL unknown-device alert and is BLOCKED
\* (80 >= 80).
C3_UnknownDeviceAloneBlocked ==
    UnknownDeviceOnly =>
        /\ R.risk_score = 80
        /\ R.alerts = <<Alert("CRITICAL", "Unknown device detected", 0)>>
        /\ Status = "BLOCKED"

\* C3 witness: such an evaluation, logged as BLOCKED.
C3_Witness ==
    /\ UnknownDeviceOnly
    /\ attempts[Len(attempts)].status = "BLOCKED"
    /\ attempts[Len(attempts)].risk_score = 80

\* What a pass reads, the random draws left out.
Inputs(c) ==
    [user |-> c.user, login |-> c.login, device_intel |-> c.device_intel,
     sim_intel |-> c.sim_intel, recent_attempts |-> c.recent_attempts,
     hour |-> c.hour, matched |-> c.matched]

\* C4: an evaluation that follows another one with the same profile, the
\* same login, the same rows read from the tables and the same clock hour,
\* the intelligence tables untouched in between, returns the same score,
\* alerts and status.
C4_Deterministic ==
    [][(/\ last # <<>>
        /\ last' # <<>>
        /\ attempts' # attempts
        /\ device_intelligence' = device_intelligence
        /\ sim_intelligence' = sim_intelligence
        /\ ~DeviceChanged /\ ~SimChanged
        /\ Inputs(last'[1].c) = Inputs(last[1].c))
       => (/\ last'[1].result = last[1].result
           /\ last'[1].status = last[1].status)]_vars

\* C5: a login on the enrolled device and SIM with nothing else firing
\* scores 0, has no alert and is APPROVED.
C5_CleanLoginApproved ==
    (Evaluated /\ ~DeviceChanged /\ NothingElseFires) =>
        /\ R.risk_score = 0
        /\ R.alerts = <<>>
        /\ Status = "APPROVED"

\* C5 witness: a clean login with a behavioural difference of exactly 50,
\* logged as APPROVED.
C5_Witness ==
    /\ Evaluated /\ ~DeviceChanged /\ NothingElseFires
    /\ BehaviorDiff = 50
    /\ attempts[Len(attempts)].status = "APPROVED"

DeviceAlertTexts ==
    {"Mobile emulator detected", "Rooted/jailbroken device detected",
     "Device with suspicious history", "Untrusted device",
     "Known device change", "Unknown device detected"}

SimAlertTexts ==
    {"SIM cloning detected", "Dual SIM usage detected", "Multiple SIM swaps",
     "Previous SIM swap detected", "SIM card changed"}

SwapAlertTexts ==
    {"Multiple SIM swaps", "Previous SIM swap detected", "SIM card changed"}

\* C7: on the enrolled device the device layer contributes 0 and no alert;
\* on the enrolled SIM the SIM layer contributes 0 and no alert.
C7_MatchingIdentifierContributesNothing ==
    Evaluated =>
        /\ ~DeviceChanged =>
               /\ R.risk_breakdown.device_analysis = 0
               /\ AlertsAmong(DeviceAlertTexts) = 0
        /\ ~SimChanged =>
               /\ R.risk_breakdown.sim_analysis = 0
               /\ AlertsAmong(SimAlertTexts) = 0

\* C7 witness: a login on the enrolled device with a changed SIM: the SIM
\* layer fires, the device layer does not.
C7_Witness ==
    /\ Evaluated /\ ~DeviceChanged /\ SimChanged
    /\ R.risk_breakdown.sim_analysis > 0
    /\ R.risk_breakdown.device_analysis = 0

\* The device outcome the precedence of C8 gives for the row read.
C8_Expected(device_intel) ==
    IF device_intel = <<>>
    THEN <<80, Alert("CRITICAL", "Unknown device detected", 0)>>
    ELSE IF device_intel[1].is_emulator
    THEN <<95, Alert("CRITICAL", "Mobile emulator detected", 0)>>
    ELSE IF device_intel[1].is_rooted
    THEN <<65, Alert("WARNING", "Rooted/jailbroken device detected", 0)>>
    ELSE IF device_intel[1].suspicious_activity_count > 3
    THEN <<60, Alert("WARNING", "Device with suspicious history", 0)>>
    ELSE IF device_intel[1].trust_score < 30
    THEN <<60, Alert("WARNING", "Untrusted device", 0)>>
    ELSE <<35, Alert("INFO", "Known device change", 0)>>

\* C8: on a changed device the device layer gives exactly one alert and one
\* score, by precedence: no row 80 CRITICAL, emulator 95 CRITICAL, rooted 65
\* WARNING, suspicious history or low trust 60 WARNING, else 35 INFO.
C8_DevicePrecedence ==
    (Evaluated /\ DeviceChanged) =>
        /\ R.risk_breakdown.device_analysis = C8_Expected(C.device_intel)[1]
        /\ AlertsAmong(DeviceAlertTexts) = 1
        /\ R.alerts[1] = C8_Expected(C.device_intel)[2]

\* C8 witness: a changed device whose row is flagged both emulator and
\* rooted scores 95.
C8_Witness ==
    /\ Evaluated /\ DeviceChanged
    /\ C.device_intel # <<>>
    /\ C.device_intel[1].is_emulator /\ C.device_intel[1].is_rooted
    /\ R.risk_breakdown.device_analysis = 95

\* What the swap-frequency rule contributed: the SIM layer's score less the
\* clone and dual-SIM rules' weights.
SwapContribution ==
    R.risk_breakdown.sim_analysis
    - (IF HasAlert("CRITICAL", "SIM cloning detected") THEN 95 ELSE 0)
    - (IF HasAlert("WARNING", "Dual SIM usage detected") THEN 70 ELSE 0)

\* C9: as claimed, on a changed SIM the swap-frequency rule always fires:
\* 65 and a WARNING when no SIM intelligence is read or the swap frequency
\* is 0 or 1, 90 and a CRITICAL when the swap frequency exceeds 2.
C9_SwapRuleAlwaysFires ==
    (Evaluated /\ SimChanged) =>
        /\ AlertsAmong(SwapAlertTexts) = 1
        /\ SwapContribution \in {65, 90}
        /\ (C.sim_intel = <<>> \/ C.sim_intel[1].swap_frequency \in {0, 1}) =>
               /\ SwapContribution = 65
               /\ \/ HasAlert("WARNING", "SIM card changed")
                  \/ HasAlert("WARNING", "Previous SIM swap detected")
        /\ (C.sim_intel # <<>> /\ C.sim_intel[1].swap_frequency > 2) =>
               /\ SwapContribution = 90
               /\ HasAlert("CRITICAL", "Multiple SIM swaps")

\* What the distance rule contributed: the geospatial layer's score less
\* the high-risk-area rule's weight.
DistanceContribution ==
    R.risk_breakdown.geospatial_analysis
    - (IF HasAlert("WARNING", "High-risk geographic area") THEN 60 ELSE 0)

\* C10 as claimed: beyond 2000 km the distance rule gives 85 and a CRITICAL
\* impossible-travel alert; beyond 500 km and up to 2000 km, 55 and a
\* WARNING.
C10_DistanceBandsAsClaimed ==
    Evaluated =>
        /\ DistanceKm > 2000 =>
               /\ DistanceContribution = 85
               /\ HasAlert("CRITICAL", "Impossible travel")
        /\ (DistanceKm > 500 /\ DistanceKm <= 2000) =>
               /\ DistanceContribution = 55
               /\ HasAlert("WARNING", "High-speed travel")

\* C10 amended: beyond 5000 km the distance rule gives 85 and a CRITICAL
\* impossible-travel alert; beyond 2000 km and up to 5000 km, 55 and a
\* WARNING high-speed-travel alert; beyond 500 km and up to 2000 km, 30 and
\* an INFO new-location alert; up to 500 km, nothing.
C10_DistanceBands ==
    Evaluated =>
        /\ DistanceKm > 5000 =>
               /\ DistanceContribution = 85
               /\ HasAlert("CRITICAL", "Impossible travel")
        /\ (DistanceKm > 2000 /\ DistanceKm <= 5000) =>
               /\ DistanceContribution = 55
               /\ HasAlert("WARNING", "High-speed travel")
        /\ (DistanceKm > 500 /\ DistanceKm <= 2000) =>
               /\ DistanceContribution = 30
               /\ HasAlert("INFO", "New location")
        /\ DistanceKm <= 500 =>
               /\ DistanceContribution = 0
               /\ AlertsAmong({"Impossible travel", "High-speed travel",
                               "New location"}) = 0

\* C10 witness: a login 2705 km from home gets 55 and the WARNING, not the
\* CRITICAL.
C10_Witness ==
    /\ Evaluated
    /\ DistanceKm = 2705
    /\ DistanceContribution = 55
    /\ ~HasAlert("CRITICAL", "Impossible travel")

\* The CRITICAL conditions whose trigger holds in what a pass reads.
CriticalConditions(c) ==
    LET device_changed == c.login.device_id # c.user.device_id
        sim_changed == c.login.sim_id # c.user.sim_id
        diff == abs(c.user.keystroke_speed - c.login.keystroke_speed)
                + abs(c.user.mouse_speed - c.login.mouse_speed)
        When(p, name) == IF p THEN {name} ELSE {}
    IN  When(device_changed /\ c.device_intel = <<>>, "unknown device")
        \cup When(device_changed /\ c.device_intel # <<>>
                  /\ c.device_intel[1].is_emulator, "emulator")
        \cup When(sim_changed /\ c.rnd.clone > 80, "sim cloning")
        \cup When(sim_changed /\ c.sim_intel # <<>>
                  /\ c.sim_intel[1].swap_frequency > 2, "multiple swaps")
        \cup When(calculate_distance(c.user.loc, c.login.loc) > 5000,
                  "impossible travel")
        \cup When(c.login.keystroke_speed = 100 /\ c.login.mouse_speed = 150,
                  "bot")
        \cup When(diff > 150, "severe deviation")
        \cup When(c.matched # <<>> /\ c.matched[1] > 80, "known fraud pattern")

\* The rows a device lookup can return.
DeviceIntelValues ==
    {<<>>} \cup {<<device_row(d, r, t)>> :
                    d \in Devices, r \in RootedDraws, t \in TrustDraws}

\* The rows a SIM lookup can return.
SimIntelValues ==
    {<<>>} \cup {<<[first_registered |-> now, last_used |-> now,
                    swap_frequency |-> k, suspicious_activity_count |-> 0]>> :
                    k \in 0..MaxSwapSeed}

\* An identifier that is not the enrolled one.
OtherThan(ids, enrolled) == CHOOSE x \in ids : x # enrolled

\* The contexts that differ from c in one signal: the login device with the
\* row on file for it, the row of the enrolled SIM, the login SIM with the
\* draws a changed SIM brings, the location, the biometrics, the matching
\* pattern.
Neighbours(c) ==
    {[c EXCEPT !.login.device_id = c.user.device_id, !.device_intel = <<>>]}
    \cup {[c EXCEPT !.login.device_id = OtherThan(Devices, c.user.device_id),
                    !.device_intel = di] : di \in DeviceIntelValues}
    \cup {[c EXCEPT !.sim_intel = si] : si \in SimIntelValues}
    \cup {[c EXCEPT !.login.sim_id = c.user.sim_id,
                    !.rnd.clone = 0, !.rnd.dual = 0]}
    \cup {[c EXCEPT !.login.sim_id = OtherThan(Sims, c.user.sim_id),
                    !.rnd.clone = cd, !.rnd.dual = dd] :
             cd \in CloneDraws, dd \in DualSimDraws}
    \cup {[c EXCEPT !.login.loc = l] : l \in Locations}
    \cup {[c EXCEPT !.login.keystroke_speed = b[1],
                    !.login.mouse_speed = b[2]] : b \in Biometrics}
    \cup {[c EXCEPT !.matched = m] : m \in {<<>>, <<90>>}}

StatusOf(result) ==
    decide(result.risk_score, CountAlerts(result.alerts, "CRITICAL"))

\* C6: changing one signal of an evaluation so that one more CRITICAL
\* condition holds, everything else as it was, gives a score that is not
\* lower, and a BLOCKED evaluation stays BLOCKED.
C6_MonotoneInCriticalConditions ==
    Evaluated =>
        LET before == CriticalConditions(C) IN
        \A c2 \in Neighbours(C) :
            LET after == CriticalConditions(c2) IN
            (before \subseteq after /\ after # before) =>
                LET r2 == comprehensive_risk_analysis(c2) IN
                /\ r2.risk_score >= R.risk_score
                /\ Status = "BLOCKED" => StatusOf(r2) = "BLOCKED"

\* C6 witness: an evaluation below the cap that is not BLOCKED and has a
\* neighbour with one more CRITICAL condition, a higher score and BLOCKED.
C6_Witness ==
    /\ Evaluated
    /\ R.risk_score = 65 /\ Status = "CHALLENGE"
    /\ \E c2 \in Neighbours(C) :
           /\ CriticalConditions(C) = {}
           /\ Cardinality(CriticalConditions(c2)) = 1
           /\ comprehensive_risk_analysis(c2).risk_score > 65
           /\ StatusOf(comprehensive_risk_analysis(c2)) = "BLOCKED"

BehaviorAlertTexts ==
    {"Automated/bot behavior detected", "Severe behavioral anomaly",
     "Moderate behavioral change", "Minor behavioral variation"}

\* C13: without the bot signature the behavioural layer goes by the
\* difference d: 70 CRITICAL above 150, 40 WARNING above 100, 20 INFO above
\* 50, else 0 and no alert; an otherwise matching login with d = 60 scores
\* 20 with the one INFO alert and is APPROVED.
C13_DeviationBands ==
    (Evaluated /\ ~BotSignature) =>
        /\ BehaviorDiff > 150 =>
               /\ R.risk_breakdown.behavioral_analysis = 70
               /\ HasAlert("CRITICAL", "Severe behavioral anomaly")
        /\ (BehaviorDiff > 100 /\ BehaviorDiff <= 150) =>
               /\ R.risk_breakdown.behavioral_analysis = 40
               /\ HasAlert("WARNING", "Moderate behavioral change")
        /\ (BehaviorDiff > 50 /\ BehaviorDiff <= 100) =>
               /\ R.risk_breakdown.behavioral_analysis = 20
               /\ HasAlert("INFO", "Minor behavioral variation")
        /\ BehaviorDiff <= 50 =>
               R.risk_breakdown.behavioral_analysis = 0
        /\ AlertsAmong(BehaviorAlertTexts) =
               (IF BehaviorDiff > 50 THEN 1 ELSE 0)
        /\ (/\ BehaviorDiff = 60
            /\ ~DeviceChanged /\ ~SimChanged /\ DistanceKm <= 500
            /\ C.hour >= 5 /\ C.hour <= 23 /\ C.recent_attempts <= 5
            /\ C.rnd.network >= 12 /\ C.rnd.location <= 70) =>
               /\ R.risk_score = 20
               /\ R.alerts = <<Alert("INFO", "Minor behavioral variation", 0)>>
               /\ Status = "APPROVED"

\* C13 witness: a login that differs by exactly 100 gets the INFO band.
C13_Witness ==
    /\ Evaluated /\ ~BotSignature
    /\ BehaviorDiff = 100
    /\ R.risk_breakdown.behavioral_analysis = 20

\* C14: with the bot signature the behavioural layer gives exactly 90 and
\* the one CRITICAL bot alert, whatever the difference from the enrolled
\* biometrics.
C14_BotShortCircuits ==
    (Evaluated /\ BotSignature) =>
        /\ R.risk_breakdown.behavioral_analysis = 90
        /\ HasAlert("CRITICAL", "Automated/bot behavior detected")
        /\ AlertsAmong(BehaviorAlertTexts) = 1

\* C14 witness: the bot signature 158 away from the enrolled biometrics
\* gives 90.
C14_Witness ==
    /\ Evaluated /\ BotSignature
    /\ BehaviorDiff = 158
    /\ R.risk_breakdown.behavioral_analysis = 90

\* C15: the confidence is 0.95 with two or more CRITICAL alerts, else 0.88
\* with one, else 0.82 with two or more WARNING alerts, else 0.92.
C15_ConfidenceFromCounts ==
    Evaluated =>
        LET critical == CountAlerts(R.alerts, "CRITICAL")
            warning == CountAlerts(R.alerts, "WARNING")
        IN  /\ R.ml_confidence =
                   (IF critical >= 2 THEN 95
                    ELSE IF critical >= 1 THEN 88
                    ELSE IF warning >= 2 THEN 82 ELSE 92)
            /\ R.ml_confidence \in {95, 88, 82, 92}
            /\ R.ml_confidence >= 0 /\ R.ml_confidence <= 100

\* C15 witness: one WARNING and no CRITICAL alert: 0.92.
C15_Witness ==
    /\ Evaluated
    /\ CountAlerts(R.alerts, "CRITICAL") = 0
    /\ CountAlerts(R.alerts, "WARNING") = 1
    /\ R.ml_confidence = 92

\* C16 as claimed: the weights an evaluation uses are ordered cloning >
\* impossible travel > bot > unknown device > multiple swaps > first swap and
\* dual SIM > known device change > moderate behaviour.
C16_WeightOrderAsClaimed ==
    Evaluated =>
        /\ risk_weights.sim_clone_detected > risk_weights.impossible_travel
        /\ risk_weights.impossible_travel > risk_weights.behavioral_bot
        /\ risk_weights.behavioral_bot > risk_weights.device_change_unknown
        /\ risk_weights.device_change_unknown > risk_weights.sim_swap_multiple
        /\ risk_weights.sim_swap_multiple > risk_weights.sim_swap_first
        /\ risk_weights.sim_swap_multiple > risk_weights.dual_sim_detected
        /\ risk_weights.sim_swap_first > risk_weights.device_change_known
        /\ risk_weights.dual_sim_detected > risk_weights.device_change_known
        /\ risk_weights.device_change_known > risk_weights.behavioral_moderate

\* C16 amended: the weights an evaluation uses are ordered cloning > bot =
\* multiple swaps > impossible travel > unknown device > dual SIM > first
\* swap > moderate behaviour > known device change.
C16_WeightOrder ==
    Evaluated =>
        /\ risk_weights.sim_clone_detected > risk_weights.behavioral_bot
        /\ risk_weights.behavioral_bot = risk_weights.sim_swap_multiple
        /\ risk_weights.sim_swap_multiple > risk_weights.impossible_travel
        /\ risk_weights.impossible_travel > risk_weights.device_change_unknown
        /\ risk_weights.device_change_unknown > risk_weights.dual_sim_detected
        /\ risk_weights.dual_sim_detected > risk_weights.sim_swap_first
        /\ risk_weights.sim_swap_first > risk_weights.behavioral_moderate
        /\ risk_weights.behavioral_moderate > risk_weights.device_change_known

\* C16 witness: a login that is both a bot and an impossible journey: the
\* bot's 90 above the journey's 85.
C16_Witness ==
    /\ Evaluated
    /\ R.risk_breakdown.behavioral_analysis = 90
    /\ DistanceContribution = 85
    /\ R.risk_breakdown.behavioral_analysis > DistanceContribution

\* The attempts on file before the evaluation on display was logged.
Previous == SubSeq(attempts, 1, Len(attempts) - 1)

\* More than 5 earlier BLOCKED or CHALLENGE attempts of the same user were
\* logged less than 10 minutes ago.
RapidAttempts ==
    Cardinality({i \in DOMAIN Previous :
                    /\ Previous[i].user_id = C.user.user_id
                    /\ Previous[i].status \in {"BLOCKED", "CHALLENGE"}
                    /\ now - Previous[i].timestamp < 10}) > 5

\* What the rapid-attempts rule contributed: the temporal layer's score less
\* the unusual-hour rule's weight.
RapidContribution ==
    R.risk_breakdown.temporal_analysis
    - (IF HasAlert("WARNING", "Unusual login time") THEN 45 ELSE 0)

\* C12 as claimed: the rapid-attempts rule adds 50 and a WARNING exactly
\* when more than 5 earlier BLOCKED or CHALLENGE attempts of the same user
\* fall in the last 10 minutes.
C12_RapidAttemptsRule ==
    Evaluated =>
        /\ HasAlert("WARNING", "Multiple rapid attempts") <=> RapidAttempts
        /\ RapidContribution = (IF RapidAttempts THEN 50 ELSE 0)

\* The run of s executes its statement at pc in this step.
Did(s, pc) ==
    /\ Running(s, pc)
    /\ s \in DOMAIN threads' => threads'[s] # threads[s]

\* C17: a stored profile is never changed or removed: no step changes the
\* profile of a user on file, a step that changes the users table is a
\* successful registration of a new user, and a rejected registration,
\* whether get_user or the INSERT rejects it, leaves the table as it was.
C17_ProfileImmutable ==
    [][/\ \A u \in DOMAIN users :
              u \in DOMAIN users' /\ users'[u] = users[u]
       /\ users' # users =>
              /\ ui' = <<"Registration Successful">>
              /\ Cardinality(DOMAIN users') = Cardinality(DOMAIN users) + 1
       /\ \A s \in Sessions :
              (Did(s, "add_user") /\ threads[s].f.user_id \in DOMAIN users) =>
                  /\ ui' = <<"Registration failed">>
                  /\ users' = users
       /\ (ui' # ui /\ ui' = <<"User already exists">>) => users' = users]_vars

\* C17 witness: u1 is enrolled on the primary SIM and has an attempt on
\* file from another device; a registration of u1 with the other SIM, which
\* had passed get_user before u1 was stored, has just failed on its INSERT,
\* and the profile is as enrolled.
C17_Witness ==
    /\ "u1" \in DOMAIN users
    /\ ui = <<"Registration failed">>
    /\ attempts # <<>>
    /\ \A i \in DOMAIN attempts : attempts[i].user_id = "u1"
    /\ device_intelligence # EmptyTable
    /\ users["u1"] = Form("u1", "trusted_device_001", "primary_sim_001",
                          "bangalore", <<170, 200>>)

----------------------------------------------------------------------------
(* Properties of one pass, checked on the engine called directly.          *)

\* The sequences that hold every element of S once.
Perms(S) ==
    {f \in [1..Cardinality(S) -> S] : \A x \in S : \E i \in DOMAIN f : f[i] = x}

Reverse(seq) == [i \in DOMAIN seq |-> seq[Len(seq) + 1 - i]]

\* The layers that query the store, and the ones that do not.
StoreLayers ==
    {"device_analysis", "sim_analysis", "temporal_analysis",
     "pattern_analysis"}

PureLayers == <<"geospatial_analysis", "behavioral_analysis",
                "network_analysis">>

\* Execution orders: the store layers in each of their orders, before or
\* after the others, and the code's order backwards.  Any two layers come
\* in both relative orders.
LayerOrders ==
    {o \o PureLayers : o \in Perms(StoreLayers)}
    \cup {PureLayers \o o : o \in Perms(StoreLayers)}
    \cup {CodeOrder, Reverse(CodeOrder)}

AlertSet(alerts) == {alerts[i] : i \in DOMAIN alerts}

HasAlertText(alerts, msg) == \E i \in DOMAIN alerts : alerts[i].msg = msg

\* C18: in a pass that returns, the layers do not influence each other.
\* Run in any of the orders above from the stores the call found, the pass
\* returns the same total, the same breakdown and the same set of alerts as
\* the code's order did and leaves the same tables; each layer contributes
\* what it contributes when it runs alone on the stores the call found; and
\* no intelligence row is written twice.
C18_LayersIndependent ==
    last # <<>> /\ ~last[1].raised =>
        LET e == last[1]
            returned == e.result[1]
        IN  /\ \A order \in LayerOrders :
                LET p == RunLayers(order, e.before, e.user, e.login, e.env)
                IN  /\ ~p.raised
                    /\ pass_result(p).risk_score = returned.risk_score
                    /\ p.risk = returned.risk_breakdown
                    /\ AlertSet(p.alerts) = AlertSet(returned.alerts)
                    /\ Len(p.alerts) = Len(returned.alerts)
                    /\ p.device_intelligence = device_intelligence
                    /\ p.sim_intelligence = sim_intelligence
                    /\ \A i, j \in DOMAIN p.writes :
                           p.writes[i] = p.writes[j] => i = j
            /\ \A name \in DOMAIN returned.risk_breakdown :
                LET alone == Layer(name, e.before, e.user, e.login, e.env)
                IN  /\ ~alone.raised
                    /\ alone.risk[name] = returned.risk_breakdown[name]
                    /\ AlertSet(alone.alerts) \subseteq AlertSet(returned.alerts)

\* A pass on seeded tables that changes device and SIM: both layers read a
\* row and write one, and the temporal and device layers raise alerts.
C18_Witness ==
    /\ last # <<>>
    /\ ~last[1].raised
    /\ last[1].env.fail = {}
    /\ last[1].before.device_intelligence # EmptyTable
    /\ last[1].before.sim_intelligence # EmptyTable
    /\ last[1].writes = <<<<"device_intelligence", "emulator_device_101">>,
                          <<"sim_intelligence", "swapped_sim_101">>>>
    /\ device_intelligence # last[1].before.device_intelligence
    /\ sim_intelligence # last[1].before.sim_intelligence
    /\ last[1].result[1].risk_breakdown.temporal_analysis > 0
    /\ Len(last[1].result[1].alerts) >= 3

\* The layer a store query belongs to.
Owner(q) ==
    CASE q \in {"device_lookup", "device_update"} -> "device_analysis"
      [] q \in {"sim_lookup", "sim_update"} -> "sim_analysis"
      [] q = "attempts_lookup" -> "temporal_analysis"
      [] q = "pattern_lookup" -> "pattern_analysis"

\* C19: a store query that fails during scoring does not abort the
\* evaluation.  The call returns a capped score, alerts and a breakdown of
\* all seven layers; every layer the failed query does not belong to
\* contributes what it contributes on a healthy store; a failed lookup
\* scores as a lookup that finds nothing (no device row, no SIM row, no
\* recent attempt, no pattern); a failed update leaves its table as it was
\* and the score as on a healthy store.
C19_StoreFailureNeverAborts ==
    last # <<>> /\ last[1].env.fail # {} =>
        LET e == last[1]
            healthy == RunLayers(CodeOrder, e.before, e.user, e.login,
                                 [e.env EXCEPT !.fail = {}])
            nothing == RunLayers(CodeOrder,
                                 StartPass(EmptyTable, EmptyTable),
                                 e.user, e.login, [e.env EXCEPT !.fail = {}])
        IN  /\ ~e.raised
            /\ e.result # <<>>
            /\ e.result[1].risk_score \in 0..100
            /\ DOMAIN e.result[1].risk_breakdown = AlertSet(CodeOrder)
            /\ \A q \in e.env.fail :
                LET risk == e.result[1].risk_breakdown IN
                /\ \A name \in DOMAIN risk :
                       name # Owner(q) => risk[name] = healthy.risk[name]
                /\ q = "device_lookup" =>
                       risk.device_analysis = nothing.risk.device_analysis
                /\ q = "sim_lookup" =>
                       risk.sim_analysis = nothing.risk.sim_analysis
                /\ q = "attempts_lookup" =>
                       risk.temporal_analysis =
                           analyze_temporal_patterns(hour_of(now), 0).risk
                /\ q = "pattern_lookup" => risk.pattern_analysis = 0
                /\ q = "device_update" =>
                       /\ risk.device_analysis = healthy.risk.device_analysis
                       /\ device_intelligence = e.before.device_intelligence
                /\ q = "sim_update" =>
                       /\ risk.sim_analysis = healthy.risk.sim_analysis
                       /\ sim_intelligence = e.before.sim_intelligence

\* The lookup of a known emulator fails: the pass still returns, scoring
\* the device as unknown where a healthy store scores the emulator, with the
\* SIM and temporal layers contributing as usual.
C19_Witness ==
    /\ last # <<>>
    /\ last[1].env.fail = {"device_lookup"}
    /\ last[1].login.device_id = "emulator_device_101"
    /\ last[1].before.device_intelligence # EmptyTable
    /\ ~last[1].raised
    /\ last[1].result[1].risk_breakdown.device_analysis
           = risk_weights.device_change_unknown
    /\ HasAlertText(last[1].result[1].alerts, "Unknown device detected")
    /\ last[1].result[1].risk_breakdown.sim_analysis > 0
    /\ last[1].result[1].risk_breakdown.temporal_analysis > 0

\* C20: as claimed, a call that fails on a malformed attempt or profile is
\* rejected before any scoring: when the call raises, the device
\* intelligence, the SIM intelligence and the attempt log are as before.
C20_FailedCallLeavesStores ==
    [][(last' # <<>> /\ last'[1].raised) =>
           /\ device_intelligence' = device_intelligence
           /\ sim_intelligence' = sim_intelligence
           /\ attempts' = attempts]_vars

\* C11 as claimed: with a pattern on file for the login's device or SIM the
\* pattern layer gives 75 and a CRITICAL alert when the highest matching
\* confidence exceeds 0.8, 50 and a WARNING when it is above 0.6 and at most
\* 0.8; without a matching pattern it gives 0 and no alert.
C11_PatternLayerAsClaimed ==
    (/\ last # <<>>
     /\ last[1].env.fail = {}
     /\ last[1].user = EngineUser
     /\ last[1].login \in EngineLogins) =>
        LET matched == select_max_confidence(last[1].login)
            r == last[1].result[1]
            texts == {"Matches known fraud pattern",
                      "Similar to fraud pattern"}
        IN  /\ (matched # <<>> /\ matched[1] > 80) =>
                   /\ r.risk_breakdown.pattern_analysis = 75
                   /\ \E i \in DOMAIN r.alerts :
                          /\ r.alerts[i].sev = "CRITICAL"
                          /\ r.alerts[i].msg = "Matches known fraud pattern"
            /\ (matched # <<>> /\ matched[1] > 60 /\ matched[1] <= 80) =>
                   /\ r.risk_breakdown.pattern_analysis = 50
                   /\ \E i \in DOMAIN r.alerts :
                          /\ r.alerts[i].sev = "WARNING"
                          /\ r.alerts[i].msg = "Similar to fraud pattern"
            /\ matched = <<>> =>
                   /\ r.risk_breakdown.pattern_analysis = 0
                   /\ \A i \in DOMAIN r.alerts : r.alerts[i].msg \notin texts

----------------------------------------------------------------------------
(* Properties of the page on a store whose writes may fail.                *)

Statuses == {"APPROVED", "CHALLENGE", "BLOCKED"}

\* The decisions among the messages of a page.
Decisions(page) == {i \in DOMAIN page : page[i] \in Statuses}

\* C21: every authentication of a registered user shows exactly one
\* decision, the one the decision logic gives for the analysis, and logs
\* at most one attempt, which carries that decision's status and score.
\* When the INSERT of the attempt fails nothing is logged and the decision
\* shown is still that one.
C21_OneDecisionAtMostOneRecord ==
    [][/\ attempts' # attempts => \E s \in Sessions : Did(s, "log")
       /\ \A s \in Sessions : Did(s, "log") =>
              LET e == last'[1]
                  n == Len(attempts)
              IN  /\ e.c = Context(threads[s])
                  /\ e.result = comprehensive_risk_analysis(e.c)
                  /\ e.status = decide(e.result.risk_score,
                                       CountAlerts(e.result.alerts,
                                                   "CRITICAL"))
                  /\ e.status = threads[s].status
                  /\ Decisions(ui') = {1}
                  /\ ui'[1] = e.status
                  /\ s \notin DOMAIN threads'
                  /\ IF "attempt_insert" \in e.fail
                     THEN /\ attempts' = attempts
                          /\ ui'[Len(ui')] = "Failed to log attempt"
                     ELSE /\ Len(attempts') = n + 1
                          /\ SubSeq(attempts', 1, n) = attempts
                          /\ attempts'[n + 1].user_id = e.c.login.user_id
                          /\ attempts'[n + 1].status = e.status
                          /\ attempts'[n + 1].risk_score
                                 = e.result.risk_score]_vars

\* A BLOCKED decision is shown, with the error under it, although its
\* attempt could not be logged.
C21_Witness ==
    /\ last # <<>>
    /\ "attempt_insert" \in last[1].fail
    /\ last[1].status = "BLOCKED"
    /\ ui = <<"BLOCKED", "Security notification sent",
              "Failed to log attempt">>
    /\ last[1].result.risk_score >= 80
    /\ attempts = <<>>

\* C22: as claimed, a notification is stored only for a BLOCKED attempt, and
\* the notification_sent flag logged with an attempt is true exactly when
\* a notification record for that attempt is in the notifications table.
C22_FlagMatchesStoredNotification ==
    [][/\ notifications' # notifications =>
              \E s \in Sessions :
                  Did(s, "notify") /\ threads[s].status = "BLOCKED"
       /\ \A s \in Sessions :
              (Did(s, "log") /\ Len(attempts') = Len(attempts) + 1) =>
                  LET row == attempts'[Len(attempts')]
                      stored ==
                          \E i \in DOMAIN notifications :
                              /\ notifications[i].user_id = row.user_id
                              /\ notifications[i].risk_score = row.risk_score
                              /\ notifications[i].sent_time = row.timestamp
                  IN  row.notification_sent <=> stored]_vars

----------------------------------------------------------------------------
(* Two sessions authenticating at once.                                    *)

StoredSwapFrequency(table, sim_id) ==
    IF sim_id \in DOMAIN table THEN table[sim_id].swap_frequency ELSE 0

\* C23: as claimed, no swap-frequency increment is lost under concurrent
\* scoring: every update that completes raises the stored swap_frequency of
\* its SIM by exactly one, so that n completed updates raise it by n.
C23_NoLostIncrement ==
    [][\A s \in Sessions :
          Did(s, "sim_insert") =>
              StoredSwapFrequency(sim_intelligence', threads[s].f.sim_id)
                  = StoredSwapFrequency(sim_intelligence,
                                        threads[s].f.sim_id) + 1]_vars

\* The run of s has been scored, with the unknown-device outcome for device
\* d.
ScoredUnknown(s, d) ==
    /\ s \in DOMAIN threads
    /\ threads[s].result # <<>>
    /\ threads[s].f.device_id = d
    /\ HasAlertText(threads[s].result[1].alerts, "Unknown device detected")
    /\ threads[s].result[1].risk_breakdown.device_analysis
           = risk_weights.device_change_unknown

\* C25: as claimed, the unknown-device outcome occurs at most once per
\* device id: no two attempts with the same changed device are both scored
\* as unknown, and an attempt is scored as unknown only from a table that
\* had no row of its device when the attempt read it.
C25_UnknownDeviceAtMostOnce ==
    /\ \A d \in Devices :
           Cardinality({s \in Sessions : ScoredUnknown(s, d)}) <= 1
    /\ \A s \in Sessions, d \in Devices :
           ScoredUnknown(s, d) => threads[s].device_intel = <<>>

----------------------------------------------------------------------------
(* The intelligence tables over sequences of attempts.                     *)

\* C24: as claimed, intelligence is only updated monotonically: no step
\* removes a row, resets or lowers the first-seen (first-registered) time,
\* lowers the suspicious-activity count, the user count or the swap
\* frequency, or moves last_seen (last_used) backwards.
C24_IntelligenceMonotone ==
    [][/\ \A d \in DOMAIN device_intelligence :
              /\ d \in DOMAIN device_intelligence'
              /\ device_intelligence'[d].first_seen
                     = device_intelligence[d].first_seen
              /\ device_intelligence'[d].last_seen
                     >= device_intelligence[d].last_seen
              /\ device_intelligence'[d].suspicious_activity_count
                     >= device_intelligence[d].suspicious_activity_count
              /\ device_intelligence'[d].user_count
                     >= device_intelligence[d].user_count
       /\ \A s \in DOMAIN sim_intelligence :
              /\ s \in DOMAIN sim_intelligence'
              /\ sim_intelligence'[s].first_registered
                     = sim_intelligence[s].first_registered
              /\ sim_intelligence'[s].last_used
                     >= sim_intelligence[s].last_used
              /\ sim_intelligence'[s].swap_frequency
                     >= sim_intelligence[s].swap_frequency
              /\ sim_intelligence'[s].suspicious_activity_count
                     >= sim_intelligence[s].suspicious_activity_count]_vars

----------------------------------------------------------------------------
(* One session, its attempts one after another.                            *)

\* Every attempt so far, the one that ends in this step included, was made
\* by user_id.
Alone(user_id) ==
    /\ last' # <<>>
    /\ last'[1].c.user.user_id = user_id
    /\ \A i \in DOMAIN attempts : attempts[i].user_id = user_id

\* C26: the SIM layer reads the row of the user's enrolled SIM and writes
\* the row of the attempt's SIM, adding one to its swap frequency and
\* leaving every other row alone.  Hence, from an empty SIM intelligence,
\* while a user is the only one to make attempts the enrolled SIM has no
\* row: each SIM-changed attempt of that user takes the no-record branch
\* (65 WARNING "SIM card changed") and never the multiple-swaps rule,
\* however often the attempt's SIM was used.
C26_SwapFrequencyReadFromEnrolledSim ==
    [][\A s \in Sessions :
          LET t == threads[s]
              enrolled == t.user.sim_id
              used == t.f.sim_id
          IN  /\ Did(s, "sim_select") =>
                     threads'[s].sim_intel
                         = row_of(sim_intelligence, enrolled)
              /\ Did(s, "sim_insert") =>
                     /\ used \in DOMAIN sim_intelligence'
                     /\ sim_intelligence'[used].swap_frequency
                            = StoredSwapFrequency(sim_intelligence, used) + 1
                     /\ \A x \in DOMAIN sim_intelligence :
                            x # used =>
                                /\ x \in DOMAIN sim_intelligence'
                                /\ sim_intelligence'[x] = sim_intelligence[x]
              /\ (Did(s, "log") /\ used # enrolled /\ Alone(t.user.user_id))
                     =>
                     LET e == last'[1] IN
                     /\ enrolled \notin DOMAIN sim_intelligence'
                     /\ e.c.sim_intel = <<>>
                     /\ HasAlertText(e.result.alerts, "SIM card changed")
                     /\ ~HasAlertText(e.result.alerts, "Multiple SIM swaps")
                     /\ e.result.risk_breakdown.sim_analysis
                            = risk_weights.sim_swap_first]_vars

\* u1 alone has changed to the same SIM three times: the SIM's row counts
\* three swaps, and the third attempt is still scored as a first change.
C26_Witness ==
    /\ last # <<>>
    /\ Len(attempts) = MaxPageAttempts
    /\ \A i \in DOMAIN attempts : attempts[i].user_id = "u1"
    /\ last[1].c.user.user_id = "u1"
    /\ last[1].c.login.sim_id = "swapped_sim_101"
    /\ sim_intelligence["swapped_sim_101"].swap_frequency = MaxPageAttempts
    /\ "primary_sim_001" \notin DOMAIN sim_intelligence
    /\ HasAlertText(last[1].result.alerts, "SIM card changed")
    /\ last[1].result.risk_breakdown.sim_analysis
           = risk_weights.sim_swap_first

----------------------------------------------------------------------------
(* Lock-out and the frame of one attempt, on the evaluation of one         *)
(* attempt.                                                                *)

\* C27: as claimed, lock-out is self-sustaining: an attempt of a user who
\* has more than 5 BLOCKED or CHALLENGE attempts logged in the last 10
\* minutes scores at least 50, is CHALLENGE or BLOCKED even when it matches
\* the enrolled profile, and is itself logged as a counted attempt.
C27_LockoutSelfSustaining ==
    (Evaluated /\ RapidAttempts) =>
        /\ R.risk_score >= 50
        /\ Status \in {"CHALLENGE", "BLOCKED"}
        /\ attempts[Len(attempts)].user_id = C.user.user_id
        /\ attempts[Len(attempts)].status = Status
        /\ attempts[Len(attempts)].timestamp = now

\* table2 is table1 but for the row of key k, which table2 has.
OnlyRowWritten(table1, table2, k) ==
    /\ DOMAIN table2 = DOMAIN table1 \cup {k}
    /\ \A x \in DOMAIN table1 : x # k => table2[x] = table1[x]

\* C28: an attempt on the enrolled device and SIM leaves both intelligence
\* tables unchanged; an attempt with a changed device writes the row of
\* that device and no other device row, one with a changed SIM the row of
\* that SIM and no other SIM row, and an unchanged identifier leaves its
\* table alone.  A run reaches the statements of the device (SIM) layer
\* only with a changed device (SIM), only the UPDATE of a run changes a
\* table, and it changes the one row.
C28_IntelligenceFrame ==
    [][/\ \A s \in DOMAIN threads :
              LET t == threads[s] IN
              /\ t.pc \in {"device_select", "device_update"} =>
                     t.f.device_id # t.user.device_id
              /\ t.pc \in {"sim_select", "swap_select", "sim_insert"} =>
                     t.f.sim_id # t.user.sim_id
              /\ Did(s, "device_update") =>
                     OnlyRowWritten(device_intelligence, device_intelligence',
                                    t.f.device_id)
              /\ Did(s, "sim_insert") =>
                     OnlyRowWritten(sim_intelligence, sim_intelligence',
                                    t.f.sim_id)
              /\ Did(s, "log") =>
                     /\ t.f.device_id # t.user.device_id =>
                            t.f.device_id \in DOMAIN device_intelligence
                     /\ t.f.sim_id # t.user.sim_id =>
                            t.f.sim_id \in DOMAIN sim_intelligence
       /\ device_intelligence' # device_intelligence =>
              \E s \in Sessions : Did(s, "device_update")
       /\ sim_intelligence' # sim_intelligence =>
              \E s \in Sessions : Did(s, "sim_insert")]_vars

\* With rows for another device and both SIMs in the tables, u1 logs in on
\* the enrolled device with a changed SIM: the device table stays, and only
\* the changed SIM's row is rewritten.
C28_Witness ==
    /\ last # <<>>
    /\ last[1].c.user.user_id = "u1"
    /\ last[1].c.login.device_id = "trusted_device_001"
    /\ last[1].c.login.sim_id = "swapped_sim_101"
    /\ "emulator_device_101" \in DOMAIN device_intelligence
    /\ "trusted_device_001" \in DOMAIN device_intelligence
    /\ "primary_sim_001" \in DOMAIN sim_intelligence
    /\ sim_intelligence["swapped_sim_101"].swap_frequency = 1

----------------------------------------------------------------------------
(* The legacy backend, and the user without a profile.                     *)

\* C29: authenticating a user id that has no profile ends with "User not
\* found" and nothing else.  On the page the press shows the error and no
\* analysis, and in the legacy backend /login answers 404; neither step
\* logs an attempt or a session, creates a notification or a profile, or
\* changes an intelligence row.
C29_UnknownUserOnlyError ==
    [][/\ \A f \in UnknownUserForms :
              (f.user_id \notin DOMAIN users /\ PressAuthenticate("s1", f)) =>
                  /\ ui' = <<"User not found">>
                  /\ threads' = threads
                  /\ last' = <<>>
                  /\ UNCHANGED <<users, device_intelligence,
                                 sim_intelligence, fraud_patterns, attempts,
                                 notifications, users_db, sessions_db>>
       /\ \A attempt \in LegacyAttempts :
              (attempt.user_id \notin DOMAIN users_db /\ login(attempt)) =>
                  /\ response'.code = 404
                  /\ response'.detail = "User not found"
                  /\ response'.session = <<>>
                  /\ UNCHANGED <<users_db, sessions_db, users,
                                 device_intelligence, sim_intelligence,
                                 attempts, notifications>>]_vars

\* u2 has a profile in neither system and has been refused by both, while
\* u1's sessions, attempt and intelligence rows are in the stores.
C29_Witness ==
    /\ "u2" \notin DOMAIN users
    /\ "u2" \notin DOMAIN users_db
    /\ ui = <<"User not found">>
    /\ last = <<>>
    /\ threads = EmptyTable
    /\ response.code = 404
    /\ response.detail = "User not found"
    /\ sessions_db # <<>>
    /\ \A i \in DOMAIN sessions_db : sessions_db[i].user_id = "u1"
    /\ Len(attempts) = 1
    /\ Len(notifications) = 1
    /\ DOMAIN device_intelligence = {"emulator_device_101"}

\* C30: every /login of a registered user adds exactly one session record
\* holding the risk, the alerts and the status computed: the risk is 50 for
\* a device that differs, plus 50 for a SIM that differs, plus 30 for a
\* distance above 1000 km, plus 40 for a behaviour difference above 100,
\* and the status is "blocked" exactly when the risk is above 50, so that a
\* risk of exactly 50 is approved.  The response names the key of the new
\* record and repeats its risk, alerts and status.
C30_LegacyLoginScoring ==
    [][\A attempt \in LegacyAttempts :
          (attempt.user_id \in DOMAIN users_db /\ login(attempt)) =>
              LET user == users_db[attempt.user_id]
                  n == Len(sessions_db)
                  risk ==
                      (IF attempt.device_info.device_id # user.device_id
                       THEN 50 ELSE 0)
                      + (IF attempt.device_info.sim_id # user.sim_id
                         THEN 50 ELSE 0)
                      + (IF calculate_distance(user.location,
                                attempt.device_info.location) > 1000
                         THEN 30 ELSE 0)
                      + (IF abs(user.behavior.keystroke_speed
                                - attempt.behavioral_data.keystroke_speed)
                            + abs(user.behavior.mouse_movement
                                  - attempt.behavioral_data.mouse_movement)
                            > 100
                         THEN 40 ELSE 0)
              IN  /\ Len(sessions_db') = n + 1
                  /\ SubSeq(sessions_db', 1, n) = sessions_db
                  /\ sessions_db'[n + 1].user_id = attempt.user_id
                  /\ sessions_db'[n + 1].risk_score = risk
                  /\ sessions_db'[n + 1].status = "blocked" <=> risk > 50
                  /\ sessions_db'[n + 1].status = "approved" <=> risk <= 50
                  /\ Len(sessions_db'[n + 1].alerts) * 50 >= risk
                  /\ response'.code = 200
                  /\ response'.detail = ""
                  /\ Len(response'.session) = 1
                  /\ DOMAIN response'.session[1] =
                         {"session_id", "risk_score", "alerts", "status"}
                  /\ response'.session[1].session_id = n + 1
                  /\ response'.session[1].risk_score = risk
                  /\ response'.session[1].alerts = sessions_db'[n + 1].alerts
                  /\ response'.session[1].status = sessions_db'[n + 1].status
                  /\ UNCHANGED users_db]_vars

\* A login whose only anomaly is a new device: risk 50, approved.
C30_Witness ==
    /\ response.code = 200
    /\ response.session # <<>>
    /\ response.session[1].risk_score = 50
    /\ response.session[1].status = "approved"
    /\ Len(response.session[1].alerts) = 1
    /\ response.session[1].alerts[1].msg = "New device detected"
    /\ response.session[1].session_id = Len(sessions_db)
    /\ sessions_db[Len(sessions_db)].risk_score = 50
    /\ sessions_db[Len(sessions_db)].status = "approved"

====
